---- MODULE Spec2Model ----
(***************************************************************************)
(* A model of vuinputd: the job engine (Dispatcher, its dispatcher loop    *)
(* and per-target loops on the dispatcher thread) and the CUSE callbacks   *)
(* that dispatch jobs to it.                                               *)
(*                                                                         *)
(* SpecD is the job engine on its own, driven by a caller that dispatches  *)
(* closure jobs and then shuts the dispatcher down (job_engine/tests.rs).  *)
(* Spec is the daemon: the CUSE callbacks of one client, the jobs they     *)
(* dispatch, the udev monitor loop with its event store, and the kernel,   *)
(* udevd and the clock as environment.                                     *)
(***************************************************************************)
EXTENDS Integers, Sequences, FiniteSets, TLC

\* Number of jobs the caller of the job engine dispatches before close().
MaxJobs == 2

-----------------------------------------------------------------------------
(* requesting_process.rs: Namespaces, RequestingProcess *)

Namespaces(mnt, net, uts) ==
    [net |-> net, uts |-> uts, ipc |-> 1, pid |-> 1, pid_for_children |-> 1,
     user |-> 1, mnt |-> mnt, cgroup |-> 1, time |-> 1, time_for_children |-> 1]

\* a comparison that looks at the uts inode as well
equal_mnt_and_net_AndUts(self, other) ==
    self.mnt = other.mnt /\ self.net = other.net /\ self.uts = other.uts

\* Namespaces::equal_mnt_and_net (requesting_process.rs:89-93)
equal_mnt_and_net(self, other) == self.mnt = other.mnt /\ self.net = other.net

RequestingProcess(nspath, nsroot, namespaces, is_compat) ==
    [nspath |-> nspath, nsroot |-> nsroot, namespaces |-> namespaces,
     is_compat |-> is_compat]

\* The namespaces of the daemon itself.
SELF_NAMESPACES == Namespaces(1, 1, 1)

\* Two processes of one container: same namespaces, same container root,
\* different pid and therefore different nspath.
RpA1 == RequestingProcess("/proc/11/ns", "/proc/10/ns", Namespaces(2, 2, 2), FALSE)
RpA2 == RequestingProcess("/proc/12/ns", "/proc/10/ns", Namespaces(2, 2, 2), FALSE)
NoRp == RequestingProcess("", "", Namespaces(0, 0, 0), FALSE)

-----------------------------------------------------------------------------
(* job_engine/job.rs: JobTarget *)

Host == [kind |-> "Host", rp |-> NoRp]
BackgroundLoop == [kind |-> "BackgroundLoop", rp |-> NoRp]
Container(rp) == [kind |-> "Container", rp |-> rp]

\* #[derive(Eq, PartialEq, Hash)] on JobTarget and on RequestingProcess: the
\* key of the targets map compares every field.
JobTargetEq(a, b) == a = b

QueueTargets == {Host, Container(RpA1), Container(RpA2)}

-----------------------------------------------------------------------------
(* job_engine/closure_job.rs: ClosureJob.  op is what the closure's future  *)
(* does; awaits is the number of times the future suspends on something    *)
(* outside the executor (a child process) before it completes.             *)

\* cuse_device/state.rs:14-19: VuInputDevice (the DeviceIdentity).  syspath is
\* the N of /sys/devices/virtual/input/inputN, devnode the E of
\* /dev/input/eventE.
VuInputDevice(major, minor, syspath, devnode) ==
    [major |-> major, minor |-> minor, syspath |-> syspath, devnode |-> devnode]

NoDev == VuInputDevice(0, 0, 0, 0)

\* A job: op names the future create_task() builds, dev is the device a
\* device job was built for.
Job(desc, target, execute_after_cancellation, op, awaits, dev) ==
    [desc |-> desc, target |-> target,
     execute_after_cancellation |-> execute_after_cancellation,
     op |-> op, awaits |-> awaits, dev |-> dev]

ClosureJob(desc, target, execute_after_cancellation, op, awaits) ==
    Job(desc, target, execute_after_cancellation, op, awaits, NoDev)

\* The jobs the caller may dispatch.
JobTemplates ==
    { ClosureJob("set to 5", Host, FALSE, "set5", 0),
      ClosureJob("increment to 6", Host, FALSE, "inc", 0),
      ClosureJob("container task", Container(RpA1), TRUE, "nop", 1),
      ClosureJob("container task", Container(RpA2), FALSE, "nop", 1),
      ClosureJob("background loop", BackgroundLoop, FALSE, "loop", 1) }

WithId(tmpl, id) ==
    [id |-> id, desc |-> tmpl.desc, target |-> tmpl.target,
     execute_after_cancellation |-> tmpl.execute_after_cancellation,
     op |-> tmpl.op, awaits |-> tmpl.awaits, dev |-> tmpl.dev]

NoJob == WithId(ClosureJob("", Host, FALSE, "nop", 0), 0)

\* The closures of test_job_ordering.
ApplyOp(op, c) ==
    CASE op = "set5" -> 5
      [] op = "inc" -> c + 1
      [] OTHER -> c

-----------------------------------------------------------------------------
(* Tasks of the LocalPool on the dispatcher thread *)

DispTask == [kind |-> "disp", target |-> Host, id |-> 0]
LoopTask(t) == [kind |-> "loop", target |-> t, id |-> 0]
BgTask(id) == [kind |-> "bg", target |-> BackgroundLoop, id |-> id]
NoTask == [kind |-> "none", target |-> Host, id |-> 0]

VARIABLES
    tx,              \* Dispatcher.tx is Some: the producer side is open
    mainQ,           \* jobs in the dispatcher's channel
    future_handles,  \* Dispatcher.future_handles: RemoteHandles held
    dropped,         \* tasks whose RemoteHandle has been dropped
    alive,           \* tasks spawned on the pool and not yet complete
    targets,         \* keys of the targets map (each holds a Sender)
    targetQ,         \* per-target channel contents
    cur,             \* per-target loop: the job whose task it is awaiting
    curpc,           \* per-target loop: where that task is
    thread,          \* the dispatcher thread: [pc, task, job]
    cpc,             \* the caller of dispatch/close/wait_until_finished
    dispatched,      \* history: jobs in dispatch order
    events,          \* history: <<"start"|"done", job id>> in order
    counter          \* the shared counter of test_job_ordering

dvars == <<tx, mainQ, future_handles, dropped, alive, targets, targetQ, cur,
           curpc, thread, cpc, dispatched, events, counter>>

-----------------------------------------------------------------------------
(* The daemon: sessions of the CUSE device, the kernel's uinput devices,   *)
(* the udev monitor's event store, the jobs' child processes and what they *)
(* leave in the container.                                                 *)

VARIABLES
    daemon,          \* "running", or "aborted" after a panic in a callback
    placement,       \* global_config::get_placement()
    VUINPUT_STATE,   \* the registry: file handle -> VuInputState
    VUINPUT_COUNTER, \* the next file handle
    bridge,          \* the single CUSE thread: [pc, op, fh, job, st]
    uinput,          \* host /dev/uinput file per handle: [open, state, dev]
    input_no,        \* the kernel's input device counter
    kq,              \* kernel uevents udevd has not processed yet
    sock,            \* uevents queued on the monitor's socket
    hostudev,        \* minors with a file in the host's /run/udev/data
    entries,         \* EventStore.entries: syspath -> Entry
    next_cleanup,    \* udev_monitor_loop's next_cleanup
    now,             \* the clock, in seconds
    sync_state,      \* job id -> State of the job's sync_state
    locals,          \* per target: the locals of the running job's future
    children,        \* child processes started and not yet exited
    nodes,           \* place -> device nodes present there
    udevdata,        \* place -> minors with a udev data file there
    netlink,         \* udev monitor messages sent inside the container
    reply,           \* the reply the bridge sent last
    nother,          \* unrelated uevents the environment has produced
    policy,          \* global_config::get_device_policy()
    DEDUP_LAST_ERROR,\* the handle whose write error was logged last
    request,         \* the request of the CUSE client being answered
    hostops,         \* what the callback did on the session's host file
    store_log,       \* history of the event store's use, per syspath
    minted,          \* history: the file handles open has minted, in order
    udev_run,        \* a udev data file: as read, as written, as written again
    ns_gone,         \* the /proc/<pid>/ns directories that exist no more
    rp_run,          \* one get_requesting_process: /proc as read, the result
    sync_run         \* one job's sync_state with its mutex, condvar and awaiter

\* the variables only the forwarding callbacks, the event store's own
\* specification and the exit of a container's processes change
cvars == <<policy, DEDUP_LAST_ERROR, request, hostops, store_log, udev_run,
           ns_gone, rp_run, sync_run>>

\* the counter of file handles and its history
handles == <<VUINPUT_COUNTER, minted>>

svars == <<daemon, placement, VUINPUT_STATE, handles, bridge, uinput,
           input_no, kq, sock, hostudev, entries, next_cleanup, now,
           sync_state, locals, children, nodes, udevdata, netlink, reply,
           nother, cvars>>

vars == <<dvars, svars>>

\* Opens of the CUSE device, uinput devices created, clock ticks and
\* unrelated uevents in one behaviour of the daemon.
MaxOpens == 1
MaxCreates == 2
MaxTicks == 1
MaxOther == 1

\* EmitUdevEventJob gives up after this many attempts (50 in the source; the
\* attempts differ only in what the store and /run/udev/data hold by then).
MaxAttempts == 2

\* EventStore::new(Duration::from_secs(60)) and the sweep interval, seconds
Ttl == 60
CleanupInterval == 60

\* The clock advances in steps of this many seconds.
TickSecs == 61

\* First file handle (main.rs: VUINPUT_COUNTER)
FirstFh == 3

\* input devices are character devices of major 13, eventE has minor 64 + E
INPUT_MAJOR == 13
EventMinor(e) == 64 + e

Placements == {"InContainer", "OnHost", "None"}

\* A process in the daemon's own mount and network namespaces.
RpHost == RequestingProcess("/proc/20/ns", "/proc/1/ns", Namespaces(1, 1, 3), FALSE)

Clients == {RpA1, RpHost}

\* Option<T> is the empty set or a singleton.
None == {}
Some(x) == {x}
Unwrap(o) == CHOOSE x \in o : TRUE

MapPut(m, k, v) == [x \in DOMAIN m \cup {k} |-> IF x = k THEN v ELSE m[x]]
MapRemove(m, k) == [x \in DOMAIN m \ {k} |-> m[x]]
EmptyMap == [x \in {} |-> 0]

-----------------------------------------------------------------------------
(* jobs/monitor_udev_job.rs: EventStore *)

Entry(syspath, seq, add_data, remove_data, add_processed, tombstone, last_update) ==
    [syspath |-> syspath, seqnum |-> seq, add_data |-> add_data,
     remove_data |-> remove_data, add_processed |-> add_processed,
     tombstone |-> tombstone, last_update |-> last_update]

UdevEvent(syspath, seq, kind, payload) ==
    [syspath |-> syspath, seqnum |-> seq, kind |-> kind, payload |-> payload]

\* an on_event that leaves the tombstone as it is
on_event_KeepTombstone(es, event, t) ==
    LET e0 == IF event.syspath \in DOMAIN es THEN es[event.syspath]
              ELSE Entry(event.syspath, event.seqnum, None, None, FALSE, FALSE, t)
        e1 == [e0 EXCEPT !.seqnum = event.seqnum, !.last_update = t]
        e2 == IF event.kind = "Add"
              THEN [e1 EXCEPT !.add_data = Some(event.payload),
                              !.add_processed = FALSE, !.remove_data = None]
              ELSE [e1 EXCEPT !.remove_data = Some(event.payload)]
    IN  MapPut(es, event.syspath, e2)

\* EventStore::on_event (monitor_udev_job.rs:67-96)
on_event(es, event, t) ==
    LET e0 == IF event.syspath \in DOMAIN es THEN es[event.syspath]
              ELSE Entry(event.syspath, event.seqnum, None, None, FALSE, FALSE, t)
        e1 == [e0 EXCEPT !.seqnum = event.seqnum, !.last_update = t,
                         !.tombstone = FALSE]
        e2 == IF event.kind = "Add"
              THEN [e1 EXCEPT !.add_data = Some(event.payload),
                              !.add_processed = FALSE, !.remove_data = None]
              ELSE [e1 EXCEPT !.remove_data = Some(event.payload)]
    IN  MapPut(es, event.syspath, e2)

\* a take that returns the entry as it is after the call
take_result_After(es, syspath) ==
    IF syspath \notin DOMAIN es THEN None
    ELSE Some([es[syspath] EXCEPT !.add_processed = TRUE])

\* a take that returns a fresh entry for a syspath the store does not know
take_result_Fresh(es, syspath) ==
    IF syspath \in DOMAIN es THEN Some(es[syspath])
    ELSE Some(Entry(syspath, 0, Some([k \in {"ACTION"} |-> "add"]), None,
                    FALSE, FALSE, 0))

\* EventStore::take (monitor_udev_job.rs:98-115): the Option returned
take_result(es, syspath) ==
    IF syspath \in DOMAIN es THEN Some(es[syspath]) ELSE None

\* a take that marks the add processed and never sets the tombstone
take_store_NoTombstone(es, syspath) ==
    IF syspath \notin DOMAIN es THEN es
    ELSE [es EXCEPT ![syspath] = [@ EXCEPT !.add_processed = TRUE]]

\* EventStore::take: the store afterwards
take_store(es, syspath) ==
    IF syspath \notin DOMAIN es \/ es[syspath].tombstone THEN es
    ELSE [es EXCEPT ![syspath] =
            [@ EXCEPT !.add_processed = TRUE,
                      !.tombstone = (es[syspath].remove_data /= None)]]

\* a cleanup that keeps an entry that is exactly as old as the TTL
cleanup_Inclusive(es, t) ==
    LET keep == {k \in DOMAIN es :
                    ~es[k].tombstone /\ t - es[k].last_update <= Ttl}
    IN  [k \in keep |-> es[k]]

\* EventStore::cleanup (monitor_udev_job.rs:117-125)
cleanup(es, t) ==
    LET keep == {k \in DOMAIN es :
                    ~es[k].tombstone /\ t - es[k].last_update < Ttl}
    IN  [k \in keep |-> es[k]]

-----------------------------------------------------------------------------
(* Uevents.  A DEVPATH is /devices/virtual/input/inputN/eventE, or          *)
(* /devices/virtual/input/inputN when event is 0.                          *)

DevPath(input, event) == [input |-> input, event |-> event]

\* The kernel numbers its uevents; the number of an event is derived here
\* from the device and the action it is about.
SeqNum(action, input) ==
    4 * input + (CASE action = "parent" -> 0 [] action = "add" -> 1
                   [] action = "change" -> 2 [] OTHER -> 3)

\* What udevd sends to the "udev" monitor group for an event node of a
\* vuinput device.
Uevent(action, dev, seq) ==
    [k \in {"ACTION", "DEVPATH", "SEQNUM", "SUBSYSTEM", "ID_VUINPUT_KEYBOARD",
            "ID_SEAT"} |->
        CASE k = "ACTION" -> action
          [] k = "DEVPATH" -> DevPath(dev.syspath, dev.devnode)
          [] k = "SEQNUM" -> seq
          [] k = "SUBSYSTEM" -> "input"
          [] k = "ID_VUINPUT_KEYBOARD" -> "1"
          [] k = "ID_SEAT" -> "seat_vuinput"]

\* The uevent of the parent input device: no event node in its DEVPATH.
ParentUevent(action, input, seq) ==
    [k \in {"ACTION", "DEVPATH", "SEQNUM", "SUBSYSTEM"} |->
        CASE k = "ACTION" -> action
          [] k = "DEVPATH" -> DevPath(input, 0)
          [] k = "SEQNUM" -> seq
          [] k = "SUBSYSTEM" -> "input"]

\* udev_monitor_loop, the key of a property (monitor_udev_job.rs:203-207)
HarvestKey(key) ==
    CASE key = "ID_VUINPUT_KEYBOARD" -> "ID_INPUT_KEYBOARD"
      [] key = "ID_VUINPUT_MOUSE" -> "ID_INPUT_MOUSE"
      [] OTHER -> key

\* udev_monitor_loop, the properties map built from an event
\* (monitor_udev_job.rs:200-214)
Harvest(props) ==
    LET keys == {HarvestKey(k) : k \in DOMAIN props} \ {"ID_SEAT"}
    IN  [k \in keys |-> props[CHOOSE src \in DOMAIN props : HarvestKey(src) = k]]

\* the regex ^/devices/virtual/input/input(\d+)/event(\d+)$
ReMatches(devpath) == devpath.input > 0 /\ devpath.event > 0

\* monitor_udev_job.rs:227-231: the comparison is with the upper-case names
EventKindOf(action) ==
    CASE action = "ADD" -> "Add"
      [] action = "REMOVE" -> "Remove"
      [] OTHER -> "Add"

\* udev_monitor_loop, one received event (monitor_udev_job.rs:199-241)
Received(es, raw, t) ==
    LET properties == Harvest(raw) IN
    IF ReMatches(properties["DEVPATH"])
    THEN on_event(es, UdevEvent(properties["DEVPATH"].input,
                                properties["SEQNUM"],
                                EventKindOf(properties["ACTION"]),
                                properties), t)
    ELSE es

-----------------------------------------------------------------------------
(* State of the daemon *)

\* cuse_device/state.rs:40-44 (the file is the entry of uinput for the handle)
VuInputState(requesting_process, input_device) ==
    [requesting_process |-> requesting_process, input_device |-> input_device]

NoState == VuInputState(NoRp, None)

Bridge(pc, op, fh, job, st) == [pc |-> pc, op |-> op, fh |-> fh, job |-> job, st |-> st]

BridgeIdle == Bridge("idle", "", 0, 0, NoState)

\* a reply: the request, the file handle, the value, the job the callback
\* awaited (0: none) and the process the session belongs to
Reply(op, fh, val, job, rp) ==
    [op |-> op, fh |-> fh, val |-> val, job |-> job, rp |-> rp]

NoReply == Reply("", 0, 0, 0, NoRp)

\* the locals of emit_udev_event (emit_udev_event_job.rs:108-110)
Locals(netlink_data, runtime_data, number_of_attempt) ==
    [netlink_data |-> netlink_data, runtime_data |-> runtime_data,
     number_of_attempt |-> number_of_attempt]

NoLocals == Locals(None, None, 0)

Places == {"container", "hostdir"}

\* global_config.rs:19-31, the policies of --device-policy and its default
Policies == {"None", "MuteSysRq", "Sanitized", "StrictGamepad"}
DefaultPolicy == "MuteSysRq"

\* no request of a client has been taken yet
NoRequest == [op |-> "", fh |-> 0, pending |-> FALSE, held |-> <<>>]

\* history of the event store.  ever: the syspaths for which a Remove event
\* has been stored; taken: those for which take was called after that;
\* removed: those whose Remove event was followed by no Add event and no
\* sweep; quiet: those for which take was called in that situation and
\* neither an event nor a sweep came since; last: the last take; swept: the
\* syspaths without tombstone that the last operation dropped, when it was a
\* sweep
StoreLog(ever, taken, removed, quiet, last) ==
    [ever |-> ever, taken |-> taken, removed |-> removed, quiet |-> quiet,
     last |-> last, swept |-> {}]

NoTake == [syspath |-> 0, result |-> {}, unchanged |-> TRUE,
           after |-> FALSE, quiet |-> FALSE]

\* a udev data file: the content read, what write_udev_data wrote for it and
\* what it wrote when given that again
UdevRun(stage, content, written, rewritten) ==
    [stage |-> stage, content |-> content, written |-> written,
     rewritten |-> rewritten]

NoRun == UdevRun("none", <<>>, <<>>, <<>>)

\* One call of get_requesting_process: the /proc file system as the call
\* reads it, the caller's pid, and what the call returned.
Resolve(stage, proc, pid, out) ==
    [stage |-> stage, proc |-> proc, pid |-> pid, out |-> out]

NoResolve == Resolve("none", <<>>, 0, {})

\* One job's sync_state (emit_udev_event_job.rs:40): the State in the mutex,
\* who holds the mutex, the set_state calls the job's future has still to
\* make and where it is in one, the state the awaiter was called with and
\* where the awaiter is, and whether the state was reached before the
\* awaiter took the mutex first.
SyncState(state, lock, program, spc, wanted, wpc, late) ==
    [state |-> state, lock |-> lock, program |-> program, spc |-> spc,
     wanted |-> wanted, wpc |-> wpc, late |-> late]

NoSync == SyncState(0, "free", <<>>, "none", 0, "none", FALSE)

\* the variables of the forwarding callbacks before any request
InitForward ==
    /\ DEDUP_LAST_ERROR = {}
    /\ request = NoRequest
    /\ hostops = <<>>
    /\ store_log = StoreLog({}, {}, {}, {}, NoTake)
    /\ udev_run = NoRun
    /\ ns_gone = {}
    /\ rp_run = NoResolve
    /\ sync_run = NoSync

\* The session variables before the daemon has done anything; they stay so
\* in the specification of the job engine on its own.
InitIdle ==
    /\ policy = DefaultPolicy
    /\ InitForward
    /\ daemon = "running"
    /\ placement = "InContainer"
    /\ VUINPUT_STATE = EmptyMap
    /\ VUINPUT_COUNTER = FirstFh
    /\ minted = <<>>
    /\ bridge = BridgeIdle
    /\ uinput = EmptyMap
    /\ input_no = 0
    /\ kq = <<>>
    /\ sock = <<>>
    /\ hostudev = {}
    /\ entries = EmptyMap
    /\ next_cleanup = 0
    /\ now = 0
    /\ sync_state = <<>>
    /\ locals = [t \in QueueTargets |-> NoLocals]
    /\ children = {}
    /\ nodes = [p \in Places |-> {}]
    /\ udevdata = [p \in Places |-> {}]
    /\ netlink = <<>>
    /\ reply = NoReply
    /\ nother = 0


Thread(pc, task, job) == [pc |-> pc, task |-> task, job |-> job]

\* Dispatcher::new (job.rs:66-101): the channel is open and empty, the thread
\* has been spawned and has not run yet.
InitD ==
    /\ tx = TRUE
    /\ mainQ = <<>>
    /\ future_handles = {}
    /\ dropped = {}
    /\ alive = {}
    /\ targets = {}
    /\ targetQ = [t \in QueueTargets |-> <<>>]
    /\ cur = [t \in QueueTargets |-> NoJob]
    /\ curpc = [t \in QueueTargets |-> "none"]
    /\ thread = Thread("start", NoTask, NoJob)
    /\ cpc = "open"
    /\ dispatched = <<>>
    /\ events = <<>>
    /\ counter = 0
    /\ InitIdle

-----------------------------------------------------------------------------
(* The caller: dispatch, close, wait_until_finished *)

\* Dispatcher::dispatch (job.rs:103-109)
dispatch(job) ==
    /\ tx
    /\ mainQ' = Append(mainQ, job)
    /\ dispatched' = Append(dispatched, job)

CallerDispatch ==
    /\ cpc = "open"
    /\ Len(dispatched) < MaxJobs
    /\ \E tmpl \in JobTemplates : dispatch(WithId(tmpl, Len(dispatched) + 1))
    /\ UNCHANGED svars
    /\ UNCHANGED <<tx, future_handles, dropped, alive, targets, targetQ, cur,
                   curpc, thread, cpc, events, counter>>

\* Dispatcher::close, first statement (job.rs:112): self.tx = None
CloseDropTx ==
    /\ cpc = "open"
    /\ tx' = FALSE
    /\ cpc' = "closing"
    /\ UNCHANGED svars
    /\ UNCHANGED <<mainQ, future_handles, dropped, alive, targets, targetQ,
                   cur, curpc, thread, dispatched, events, counter>>

\* future_handles.lock().unwrap().clear(): every RemoteHandle held is dropped
ClearHandles ==
    /\ dropped' = dropped \cup future_handles
    /\ future_handles' = {}

\* Dispatcher::close, second statement (job.rs:114)
CloseClear ==
    /\ cpc = "closing"
    /\ ClearHandles
    /\ cpc' = "closed"
    /\ UNCHANGED svars
    /\ UNCHANGED <<tx, mainQ, alive, targets, targetQ, cur, curpc, thread,
                   dispatched, events, counter>>

\* Dispatcher::wait_until_finished up to the join (job.rs:119-121)
WaitClear ==
    /\ cpc = "closed"
    /\ tx' = FALSE
    /\ ClearHandles
    /\ cpc' = "join"
    /\ UNCHANGED svars
    /\ UNCHANGED <<mainQ, alive, targets, targetQ, cur, curpc, thread,
                   dispatched, events, counter>>

\* handle.unwrap().join() (job.rs:122) returns once the thread has ended
WaitJoin ==
    /\ cpc = "join"
    /\ thread.pc = "exited"
    /\ cpc' = "joined"
    /\ UNCHANGED svars
    /\ UNCHANGED <<tx, mainQ, future_handles, dropped, alive, targets,
                   targetQ, cur, curpc, thread, dispatched, events, counter>>

-----------------------------------------------------------------------------
(* The dispatcher thread (job.rs:77-94).  thread.pc is "start" before the   *)
(* closure runs, "spawned" between spawn_local_with_handle and the push of *)
(* the handle, "idle" inside pool.run() between two polls, "disp", "push"  *)
(* and "loop" inside a poll of the dispatcher loop or of a target loop,    *)
(* and "exited" when pool.run() has returned.                              *)

\* job.rs:78-88
ThreadSpawnDispatcherLoop ==
    /\ thread.pc = "start"
    /\ alive' = alive \cup {DispTask}
    /\ thread' = Thread("spawned", DispTask, NoJob)
    /\ UNCHANGED svars
    /\ UNCHANGED <<tx, mainQ, future_handles, dropped, targets, targetQ, cur,
                   curpc, cpc, dispatched, events, counter>>

\* job.rs:89-93
ThreadPushDispatcherHandle ==
    /\ thread.pc = "spawned"
    /\ future_handles' = future_handles \cup {DispTask}
    /\ thread' = Thread("idle", NoTask, NoJob)
    /\ UNCHANGED svars
    /\ UNCHANGED <<tx, mainQ, dropped, alive, targets, targetQ, cur, curpc,
                   cpc, dispatched, events, counter>>

\* A poll starts with the cancellation check of the remote future: a task
\* whose RemoteHandle is still held (or was never dropped) is polled.
PollStarts(task) ==
    /\ daemon = "running"
    /\ thread.pc = "idle"
    /\ task \in alive
    /\ task \notin dropped

InPoll(pc, task) == daemon = "running" /\ thread.pc = pc /\ thread.task = task

\* The remote future of a task whose RemoteHandle was dropped completes at
\* its next poll without polling the task (close, job.rs:114-115: "Pending
\* jobs canceled"); the task, what it owns and what it awaits are dropped.
PollCancelled(task) ==
    /\ thread.pc = "idle"
    /\ task \in alive
    /\ task \in dropped
    /\ alive' = alive \ {task}
    /\ targets' = IF task = DispTask THEN {} ELSE targets
    /\ IF task.kind = "loop"
       THEN /\ targetQ' = [targetQ EXCEPT ![task.target] = <<>>]
            /\ cur' = [cur EXCEPT ![task.target] = NoJob]
            /\ curpc' = [curpc EXCEPT ![task.target] = "none"]
       ELSE UNCHANGED <<targetQ, cur, curpc>>
    /\ UNCHANGED svars
    /\ UNCHANGED <<tx, mainQ, future_handles, dropped, thread, cpc,
                   dispatched, events, counter>>

\* get_or_spawn_target_loop (job.rs:171-192): the keys of the map equal to
\* the target
Lookup(map, target) == {k \in map : JobTargetEq(k, target)}

\* a channel that hands out the job sent last first
Send_Front(q, key, job) ==
    IF LoopTask(key) \in alive THEN [q EXCEPT ![key] = <<job>> \o q[key]]
    ELSE q

\* tx.send(job) (job.rs:155): fails when the loop's receiver is gone
Send(q, key, job) ==
    IF LoopTask(key) \in alive THEN [q EXCEPT ![key] = Append(q[key], job)]
    ELSE q

\* spawn_dispatcher_loop, one iteration with a job received (job.rs:134-158)
\* up to the push of a newly spawned task's handle
DispRecv ==
    /\ DispTask \in alive
    /\ PollStarts(DispTask) \/ InPoll("disp", DispTask)
    /\ mainQ /= <<>>
    /\ LET job == Head(mainQ) IN
       /\ mainQ' = Tail(mainQ)
       /\ IF job.target = BackgroundLoop
          THEN /\ alive' = alive \cup {BgTask(job.id)}
               /\ thread' = Thread("push", BgTask(job.id), NoJob)
               /\ UNCHANGED <<targets, targetQ>>
          ELSE IF Lookup(targets, job.target) /= {}
          THEN /\ targetQ' = Send(targetQ,
                                  CHOOSE k \in Lookup(targets, job.target) : TRUE,
                                  job)
               /\ thread' = Thread("disp", DispTask, NoJob)
               /\ UNCHANGED <<alive, targets>>
          ELSE /\ targets' = targets \cup {job.target}
               /\ alive' = alive \cup {LoopTask(job.target)}
               /\ thread' = Thread("push", LoopTask(job.target), job)
               /\ UNCHANGED targetQ
    /\ UNCHANGED svars
    /\ UNCHANGED <<tx, future_handles, dropped, cur, curpc, cpc, dispatched,
                   events, counter>>

\* future_handles.lock().unwrap().push(handle) (job.rs:141, 189), then the
\* job is sent to the new loop (job.rs:155)
DispPush ==
    /\ daemon = "running"
    /\ thread.pc = "push"
    /\ future_handles' = future_handles \cup {thread.task}
    /\ targetQ' = IF thread.job = NoJob THEN targetQ
                  ELSE Send(targetQ, thread.job.target, thread.job)
    /\ thread' = Thread("disp", DispTask, NoJob)
    /\ UNCHANGED svars
    /\ UNCHANGED <<tx, mainQ, dropped, alive, targets, cur, curpc, cpc,
                   dispatched, events, counter>>

\* rx.recv().await on the empty, open channel (job.rs:134)
DispPending ==
    /\ InPoll("disp", DispTask)
    /\ mainQ = <<>>
    /\ tx
    /\ thread' = Thread("idle", NoTask, NoJob)
    /\ UNCHANGED svars
    /\ UNCHANGED <<tx, mainQ, future_handles, dropped, alive, targets,
                   targetQ, cur, curpc, cpc, dispatched, events, counter>>

\* rx.recv() fails on the empty, closed channel (job.rs:160-167): the loop
\* ends and drops the targets map with every Sender in it
DispEnd ==
    /\ DispTask \in alive
    /\ PollStarts(DispTask) \/ InPoll("disp", DispTask)
    /\ mainQ = <<>>
    /\ ~tx
    /\ alive' = alive \ {DispTask}
    /\ targets' = {}
    /\ thread' = Thread("idle", NoTask, NoJob)
    /\ UNCHANGED svars
    /\ UNCHANGED <<tx, mainQ, future_handles, dropped, targetQ, cur, curpc,
                   cpc, dispatched, events, counter>>

\* a loop that does not await the task it created before it receives again
LoopAtRecv_NoAwait(t) == TRUE

\* job_target_loop (job.rs:197-200) polls rx.recv() only when the task of
\* the job before has completed
LoopAtRecv(t) == cur[t] = NoJob

\* job_target_loop: a job is received and its task created (job.rs:197-199)
LoopRecv(t) ==
    /\ LoopTask(t) \in alive
    /\ PollStarts(LoopTask(t)) \/ InPoll("loop", LoopTask(t))
    /\ LoopAtRecv(t)
    /\ targetQ[t] /= <<>>
    /\ cur' = [cur EXCEPT ![t] = Head(targetQ[t])]
    /\ curpc' = [curpc EXCEPT ![t] = "run"]
    /\ targetQ' = [targetQ EXCEPT ![t] = Tail(targetQ[t])]
    /\ events' = Append(events, <<"start", Head(targetQ[t]).id>>)
    /\ thread' = Thread("loop", LoopTask(t), NoJob)
    /\ UNCHANGED svars
    /\ UNCHANGED <<tx, mainQ, future_handles, dropped, alive, targets, cpc,
                   dispatched, counter>>

\* the task of the job has completed: create_task().await returns
JobDone(t) ==
    /\ cur' = [cur EXCEPT ![t] = NoJob]
    /\ curpc' = [curpc EXCEPT ![t] = "none"]
    /\ events' = Append(events, <<"done", cur[t].id>>)
    /\ thread' = Thread("loop", LoopTask(t), NoJob)

\* the task of a ClosureJob runs up to its first suspension or to its end
ClosureRun(t) ==
    /\ InPoll("loop", LoopTask(t))
    /\ curpc[t] = "run"
    /\ counter' = ApplyOp(cur[t].op, counter)
    /\ IF cur[t].awaits > 0
       THEN /\ curpc' = [curpc EXCEPT ![t] = "await"]
            /\ thread' = Thread("idle", NoTask, NoJob)
            /\ UNCHANGED <<cur, events>>
       ELSE JobDone(t)
    /\ UNCHANGED svars
    /\ UNCHANGED <<tx, mainQ, future_handles, dropped, alive, targets,
                   targetQ, cpc, dispatched>>

\* what the suspended task waits for happens (the child process exits)
ClosureWake(t) ==
    /\ curpc[t] = "await"
    /\ curpc' = [curpc EXCEPT ![t] = "woken"]
    /\ UNCHANGED svars
    /\ UNCHANGED <<tx, mainQ, future_handles, dropped, alive, targets,
                   targetQ, cur, thread, cpc, dispatched, events, counter>>

\* the woken task is polled again and completes
ClosureResume(t) ==
    /\ PollStarts(LoopTask(t))
    /\ curpc[t] = "woken"
    /\ JobDone(t)
    /\ UNCHANGED svars
    /\ UNCHANGED <<tx, mainQ, future_handles, dropped, alive, targets,
                   targetQ, cpc, dispatched, counter>>

\* rx.recv().await on the empty channel whose Sender is still in the map
LoopPending(t) ==
    /\ InPoll("loop", LoopTask(t))
    /\ cur[t] = NoJob
    /\ targetQ[t] = <<>>
    /\ t \in targets
    /\ thread' = Thread("idle", NoTask, NoJob)
    /\ UNCHANGED svars
    /\ UNCHANGED <<tx, mainQ, future_handles, dropped, alive, targets,
                   targetQ, cur, curpc, cpc, dispatched, events, counter>>

\* rx.recv() fails: channel empty and every Sender dropped (job.rs:201)
LoopEnd(t) ==
    /\ LoopTask(t) \in alive
    /\ PollStarts(LoopTask(t)) \/ InPoll("loop", LoopTask(t))
    /\ cur[t] = NoJob
    /\ targetQ[t] = <<>>
    /\ t \notin targets
    /\ alive' = alive \ {LoopTask(t)}
    /\ thread' = Thread("idle", NoTask, NoJob)
    /\ UNCHANGED svars
    /\ UNCHANGED <<tx, mainQ, future_handles, dropped, targets, targetQ, cur,
                   curpc, cpc, dispatched, events, counter>>

\* pool.run() returns when no task is left (job.rs:93)
ThreadExit ==
    /\ thread.pc = "idle"
    /\ alive = {}
    /\ thread' = Thread("exited", NoTask, NoJob)
    /\ UNCHANGED svars
    /\ UNCHANGED <<tx, mainQ, future_handles, dropped, alive, targets,
                   targetQ, cur, curpc, cpc, dispatched, events, counter>>

AllTasks == {DispTask} \cup {LoopTask(t) : t \in QueueTargets}
            \cup {BgTask(i) : i \in 1..(MaxJobs + 1)}

ThreadStep ==
    \/ ThreadSpawnDispatcherLoop
    \/ ThreadPushDispatcherHandle
    \/ \E task \in AllTasks : PollCancelled(task)
    \/ DispRecv
    \/ DispPush
    \/ DispPending
    \/ DispEnd
    \/ \E t \in QueueTargets : LoopRecv(t)
    \/ \E t \in QueueTargets : ClosureRun(t)
    \/ \E t \in QueueTargets : ClosureResume(t)
    \/ \E t \in QueueTargets : LoopPending(t)
    \/ \E t \in QueueTargets : LoopEnd(t)
    \/ ThreadExit

CallerStep ==
    \/ CallerDispatch
    \/ CloseDropTx
    \/ CloseClear
    \/ WaitClear
    \/ WaitJoin

NextD ==
    \/ ThreadStep
    \/ CallerStep
    \/ \E t \in QueueTargets : ClosureWake(t)

SpecD == InitD /\ [][NextD]_vars

\* The threads are scheduled and the child processes a task waits for exit.
FairSpecD ==
    /\ SpecD
    /\ WF_vars(ThreadStep)
    /\ WF_vars(CloseClear \/ WaitClear \/ WaitJoin)
    /\ \A t \in QueueTargets : WF_vars(ClosureWake(t))

-----------------------------------------------------------------------------
(* The daemon after main() has initialised it (main.rs:751-756): the        *)
(* dispatcher thread runs its pool with the dispatcher loop and the udev    *)
(* monitor, whose store is empty.                                           *)

\* jobs/*_job.rs: enum State, ordered as derived
Initialized == 0
Started == 1
Finished == 2

MonitorBackgroundLoop == Job("Monitor udev events", BackgroundLoop, FALSE, "monitor", 0, NoDev)

MknodDeviceJob(rp, dev) ==
    Job("mknod input device in container", Container(rp), FALSE, "mknod", 0, dev)

EmitUdevEventJob(rp, dev) ==
    Job("emit udev event into container", Container(rp), FALSE, "emit", 0, dev)

RemoveDeviceJob(rp, dev) ==
    Job("Remove input device from container", Container(rp), FALSE, "remove", 0, dev)

RemoveFromContainerJob(rp, dev) ==
    Job("Remove input device from container", Container(rp), FALSE, "removefc", 0, dev)

MonitorTask == BgTask(1)

\* main (main.rs:751-756) apart from the configuration
InitDaemon ==
    /\ tx = TRUE
    /\ mainQ = <<>>
    /\ future_handles = {DispTask, MonitorTask}
    /\ dropped = {}
    /\ alive = {DispTask, MonitorTask}
    /\ targets = {}
    /\ targetQ = [t \in QueueTargets |-> <<>>]
    /\ cur = [t \in QueueTargets |-> NoJob]
    /\ curpc = [t \in QueueTargets |-> "none"]
    /\ thread = Thread("idle", NoTask, NoJob)
    /\ cpc = "open"
    /\ dispatched = <<WithId(MonitorBackgroundLoop, 1)>>
    /\ events = <<>>
    /\ counter = 0
    /\ InitForward
    /\ daemon = "running"
    /\ VUINPUT_STATE = EmptyMap
    /\ VUINPUT_COUNTER = FirstFh
    /\ minted = <<>>
    /\ bridge = BridgeIdle
    /\ uinput = EmptyMap
    /\ input_no = 0
    /\ kq = <<>>
    /\ sock = <<>>
    /\ hostudev = {}
    /\ entries = EmptyMap
    /\ next_cleanup = CleanupInterval
    /\ now = 0
    /\ sync_state = <<Initialized>>
    /\ locals = [t \in QueueTargets |-> NoLocals]
    /\ children = {}
    /\ nodes = [p \in Places |-> {}]
    /\ udevdata = [p \in Places |-> {}]
    /\ netlink = <<>>
    /\ reply = NoReply
    /\ nother = 0

\* no callback of the daemon's specification reads the device policy
Init ==
    /\ InitDaemon
    /\ policy = DefaultPolicy
    /\ placement \in Placements

\* the variables of the job engine a callback of the bridge leaves alone
engineRest == <<tx, future_handles, dropped, alive, targets, targetQ, cur,
                curpc, thread, cpc, counter>>

storevars == <<entries, next_cleanup>>
contvars == <<children, nodes, udevdata, netlink>>
udevvars == <<sock, hostudev, nother>>

-----------------------------------------------------------------------------
(* The kernel's uinput devices (the environment of the daemon) *)

UinputFile(open, state, dev, client) ==
    [open |-> open, state |-> state, dev |-> dev, client |-> client]

\* event numbers in use by created devices
EventsInUse == {uinput[f].dev.devnode : f \in {g \in DOMAIN uinput : uinput[g].state = "created"}}

\* the kernel gives a new input device the next input number and the lowest
\* free event number
NewDevice ==
    LET e == CHOOSE x \in 1..(MaxCreates + 1) :
                 x \notin EventsInUse /\ \A y \in 1..(x - 1) : y \in EventsInUse
    IN  VuInputDevice(INPUT_MAJOR, EventMinor(e), input_no + 1, e)

KernelEvent(action, dev) == [action |-> action, dev |-> dev]

\* uinput_destroy_device: a created device is unregistered
DestroyedQueue(fh) ==
    IF uinput[fh].state = "created"
    THEN Append(kq, KernelEvent("remove", uinput[fh].dev))
    ELSE kq

-----------------------------------------------------------------------------
(* The CUSE callbacks.  The bridge is single-threaded (main.rs: "-s"): a    *)
(* callback is taken only when the one before has returned.                *)

CrossNamespace(rp) == ~equal_mnt_and_net(SELF_NAMESPACES, rp.namespaces)

NextJobId == Len(dispatched) + 1

\* dispatch of a job built by a callback, with its sync_state
DispatchNew(job) ==
    /\ dispatch(WithId(job, NextJobId))
    /\ sync_state' = Append(sync_state, Initialized)

TakesRequest ==
    /\ daemon = "running"
    /\ bridge.pc = "idle"

\* the errors the callbacks reply with (fuse_reply_err), as errno numbers
ENOENT == 2
EIO == 5
EBADRQC == 56

\* a panic in an extern "C" callback ends the process
Abort(fh) == daemon' = "aborted"

\* an insertion that leaves the registry as it was
insert_vuinput_state_Skip(map, fh, state) == map

\* insert_vuinput_state (cuse_device/mod.rs:87-105): the registry afterwards;
\* the file handle is fresh
insert_vuinput_state(map, fh, state) == MapPut(map, fh, state)

\* a counter that hands out its value and stays as it is
fetch_add_Same(ctr) == ctr

\* AtomicU64::fetch_add(1, SeqCst) (vuinput_open.rs:30-33): the counter
\* afterwards; the value handed out is the counter before
fetch_add(ctr) == ctr + 1

\* vuinput_open (vuinput_open.rs:35-71), for at most max calls.  The unwrap
\* of insert_vuinput_state panics when the handle is already a key.
OpenUpTo(processes, max) ==
    /\ TakesRequest
    /\ Len(minted) < max
    /\ \E rp \in processes, ok \in BOOLEAN :
        LET fh == VUINPUT_COUNTER IN
        /\ VUINPUT_COUNTER' = fetch_add(VUINPUT_COUNTER)
        /\ minted' = Append(minted, fh)
        /\ IF ok /\ fh \in DOMAIN VUINPUT_STATE
           THEN /\ Abort(fh)
                /\ UNCHANGED <<VUINPUT_STATE, uinput, reply>>
           ELSE /\ UNCHANGED daemon
                /\ IF ok
                   THEN /\ VUINPUT_STATE' =
                             insert_vuinput_state(VUINPUT_STATE, fh,
                                                  VuInputState(rp, None))
                        /\ uinput' = MapPut(uinput, fh,
                                            UinputFile(TRUE, "new", NoDev, TRUE))
                        /\ reply' = Reply("open", fh, 0, 0, rp)
                   ELSE /\ UNCHANGED <<VUINPUT_STATE, uinput>>
                        /\ reply' = Reply("open", fh, -ENOENT, 0, rp)
    /\ UNCHANGED <<dvars, cvars, placement, bridge, input_no, kq, udevvars,
                   storevars, now, sync_state, locals, contvars>>

OpenBy(processes) == OpenUpTo(processes, MaxOpens)

Open == OpenBy(Clients)

\* files the CUSE client still holds open
ClientFiles == {fh \in DOMAIN uinput : uinput[fh].client}

\* vuinput_ioctl, UI_DEV_SETUP (vuinput_ioctl.rs:256-272): the kernel rejects
\* the setup of a created device and the unwrap panics
DevSetup(fh) ==
    IF uinput[fh].state = "created"
    THEN /\ Abort(fh)
         /\ UNCHANGED <<uinput, reply>>
    ELSE /\ uinput' = [uinput EXCEPT ![fh].state = "setup"]
         /\ reply' = Reply("setup", fh, 0, 0, VUINPUT_STATE[fh].requesting_process)
         /\ UNCHANGED daemon

IoctlSetup ==
    /\ TakesRequest
    /\ \E fh \in ClientFiles : DevSetup(fh)
    /\ UNCHANGED <<dvars, cvars, placement, VUINPUT_STATE, handles, bridge,
                   input_no, kq, udevvars, storevars, now, sync_state, locals,
                   contvars>>

\* an awaiter that does not block
MknodAwaiter_NoWait(state, wanted) == TRUE

\* the awaiter of a job (mknod_device_job.rs:66-77): blocks while the job's
\* state is below the one asked for
MknodAwaiter(state, wanted) == state >= wanted

\* vuinput_ioctl, UI_DEV_CREATE up to the awaiter (vuinput_ioctl.rs:155-198),
\* or to the reply for a client in the daemon's namespaces (line 217).  The
\* kernel rejects the creation of a device that is not set up.
DevCreate(fh) ==
    IF uinput[fh].state /= "setup"
    THEN /\ Abort(fh)
         /\ UNCHANGED <<mainQ, dispatched, sync_state, VUINPUT_STATE,
                        uinput, input_no, kq, bridge, reply>>
    ELSE LET dev == NewDevice
             rp == VUINPUT_STATE[fh].requesting_process IN
         /\ input_no < MaxCreates
         /\ input_no' = input_no + 1
         /\ uinput' = [uinput EXCEPT ![fh].state = "created", ![fh].dev = dev]
         /\ kq' = Append(kq, KernelEvent("add", dev))
         /\ VUINPUT_STATE' = [VUINPUT_STATE EXCEPT ![fh].input_device = Some(dev)]
         /\ UNCHANGED daemon
         /\ IF CrossNamespace(rp)
            THEN /\ DispatchNew(MknodDeviceJob(rp, dev))
                 /\ bridge' = Bridge("await", "create", fh, NextJobId, NoState)
                 /\ UNCHANGED reply
            ELSE /\ reply' = Reply("create", fh, 0, 0, rp)
                 /\ UNCHANGED <<mainQ, dispatched, sync_state, bridge>>

IoctlCreate ==
    /\ TakesRequest
    /\ \E fh \in ClientFiles : DevCreate(fh)
    /\ UNCHANGED <<engineRest, cvars, events, placement, handles, udevvars,
                   storevars, now, locals, contvars>>

\* vuinput_ioctl, UI_DEV_CREATE from the return of the awaiter
\* (vuinput_ioctl.rs:198-215): the reply, then the dispatch of the emit job
IoctlCreateReply ==
    /\ daemon = "running"
    /\ bridge.pc = "await"
    /\ bridge.op = "create"
    /\ MknodAwaiter(sync_state[bridge.job], Finished)
    /\ LET st == VUINPUT_STATE[bridge.fh] IN
       /\ reply' = Reply("create", bridge.fh, 0, bridge.job, st.requesting_process)
       /\ DispatchNew(EmitUdevEventJob(st.requesting_process, Unwrap(st.input_device)))
    /\ bridge' = BridgeIdle
    /\ UNCHANGED <<engineRest, cvars, events, daemon, placement, VUINPUT_STATE,
                   handles, uinput, input_no, kq, udevvars, storevars,
                   now, locals, contvars>>

\* an input_device.take() that leaves the identity in the session
TakeIdentity_Keep(st) == st

\* vuinput_state.input_device.take(): the session afterwards
TakeIdentity(st) == [st EXCEPT !.input_device = None]

\* an awaiter that does not block
RemoveAwaiter_NoWait(state, wanted) == TRUE

\* the awaiter of a remove job (remove_device_job.rs:66-77,
\* remove_from_container_job.rs:53-64)
RemoveAwaiter(state, wanted) == state >= wanted

\* ui_dev_destroy(fd) and the reply (vuinput_ioctl.rs:253-254)
DestroyAndReply(fh, job) ==
    /\ uinput' = [uinput EXCEPT ![fh].state = "new", ![fh].dev = NoDev]
    /\ kq' = DestroyedQueue(fh)
    /\ reply' = Reply("destroy", fh, 0, job, VUINPUT_STATE[fh].requesting_process)

\* vuinput_ioctl, UI_DEV_DESTROY up to the awaiter (vuinput_ioctl.rs:220-246),
\* or to the reply when no remove job is dispatched
DevDestroy(fh) ==
    LET st == VUINPUT_STATE[fh]
        input_device == st.input_device
        rp == st.requesting_process IN
    /\ VUINPUT_STATE' = [VUINPUT_STATE EXCEPT ![fh] = TakeIdentity(st)]
    /\ IF input_device /= None /\ CrossNamespace(rp)
       THEN /\ DispatchNew(RemoveDeviceJob(rp, Unwrap(input_device)))
            /\ bridge' = Bridge("await", "destroy", fh, NextJobId, NoState)
            /\ UNCHANGED <<uinput, kq, reply>>
       ELSE /\ DestroyAndReply(fh, 0)
            /\ UNCHANGED <<mainQ, dispatched, sync_state, bridge>>

IoctlDestroy ==
    /\ TakesRequest
    /\ \E fh \in ClientFiles : DevDestroy(fh)
    /\ UNCHANGED <<engineRest, cvars, events, daemon, placement, handles,
                   input_no, udevvars, storevars, now, locals, contvars>>

\* vuinput_ioctl, UI_DEV_DESTROY from the return of the awaiter
IoctlDestroyReply ==
    /\ daemon = "running"
    /\ bridge.pc = "await"
    /\ bridge.op = "destroy"
    /\ RemoveAwaiter(sync_state[bridge.job], Finished)
    /\ DestroyAndReply(bridge.fh, bridge.job)
    /\ bridge' = BridgeIdle
    /\ UNCHANGED <<dvars, cvars, daemon, placement, VUINPUT_STATE, handles,
                   input_no, udevvars, storevars, now, sync_state, locals,
                   contvars>>

\* a removal that leaves the session in the registry
remove_vuinput_state_Keep(map, fh) == map

\* remove_vuinput_state (state.rs:95-103): the registry afterwards
remove_vuinput_state(map, fh) == MapRemove(map, fh)

\* drop(vuinput_state_mutex) and the reply (vuinput_release.rs:52-71): the
\* file is closed when no other reference to the session is left, and
\* closing the file destroys a created device
CloseAndReply(fh, job, rp, registry) ==
    /\ reply' = Reply("release", fh, 0, job, rp)
    /\ IF fh \in DOMAIN registry
       THEN /\ uinput' = [uinput EXCEPT ![fh].client = FALSE]
            /\ UNCHANGED kq
       ELSE /\ uinput' = [uinput EXCEPT ![fh] = UinputFile(FALSE, "new", NoDev, FALSE)]
            /\ kq' = DestroyedQueue(fh)

\* vuinput_release up to the awaiter (vuinput_release.rs:13-49), or to the
\* reply when no remove job is dispatched
Release ==
    /\ TakesRequest
    /\ \E fh \in ClientFiles :
        LET st == VUINPUT_STATE[fh]
            input_device == st.input_device
            rp == st.requesting_process
            registry == remove_vuinput_state(VUINPUT_STATE, fh) IN
        /\ VUINPUT_STATE' = registry
        /\ IF input_device /= None /\ CrossNamespace(rp)
           THEN /\ DispatchNew(RemoveFromContainerJob(rp, Unwrap(input_device)))
                /\ bridge' = Bridge("await", "release", fh, NextJobId,
                                    TakeIdentity(st))
                /\ UNCHANGED <<uinput, kq, reply>>
           ELSE /\ CloseAndReply(fh, 0, rp, registry)
                /\ UNCHANGED <<mainQ, dispatched, sync_state, bridge>>
    /\ UNCHANGED <<engineRest, cvars, events, daemon, placement, handles,
                   input_no, udevvars, storevars, now, locals, contvars>>

\* vuinput_release from the return of the awaiter
ReleaseReply ==
    /\ daemon = "running"
    /\ bridge.pc = "await"
    /\ bridge.op = "release"
    /\ RemoveAwaiter(sync_state[bridge.job], Finished)
    /\ CloseAndReply(bridge.fh, bridge.job, bridge.st.requesting_process,
                     VUINPUT_STATE)
    /\ bridge' = BridgeIdle
    /\ UNCHANGED <<dvars, cvars, daemon, placement, VUINPUT_STATE, handles,
                   input_no, udevvars, storevars, now, sync_state, locals,
                   contvars>>

-----------------------------------------------------------------------------
(* Child processes.  A job starts a child that joins the namespaces of the  *)
(* requesting process and performs one action there; the job's future is   *)
(* woken when the child has exited.                                        *)

Child(job, action, dev, data) ==
    [job |-> job, action |-> action, dev |-> dev, data |-> data]

\* process_tools::start_action
start_action(set, job, action, dev, data) == set \cup {Child(job, action, dev, data)}

\* process_tools::await_process returns for every child the job has started
ChildrenExited(job) == \A c \in children : c.job /= job

\* actions/handle_action.rs:18-45 and the closure of remove_from_container
\* (remove_from_container_job.rs:111-124): what the child leaves behind
ChildNodes(c) ==
    CASE c.action = "MknodDevice" -> nodes["container"] \cup {c.dev.devnode}
      [] c.action \in {"RemoveDevice", "RemoveFromContainer"} ->
            nodes["container"] \ {c.dev.devnode}
      [] OTHER -> nodes["container"]

ChildUdevData(c) ==
    CASE c.action = "WriteUdevRuntimeData" /\ c.data /= None ->
            udevdata["container"] \cup {c.dev.minor}
      [] c.action = "WriteUdevRuntimeData" /\ c.data = None ->
            udevdata["container"] \ {c.dev.minor}
      [] c.action = "RemoveFromContainer" -> udevdata["container"] \ {c.dev.minor}
      [] OTHER -> udevdata["container"]

ChildNetlink(c) ==
    IF c.action \in {"EmitNetlinkMessage", "RemoveFromContainer"}
    THEN Append(netlink, Unwrap(c.data))
    ELSE netlink

\* the mutation of exists that finds every path
exists_Always(gone, path) == TRUE

\* fs::exists(path) in the forked child (requesting_process.rs:253)
exists(gone, path) == path \notin gone

\* the requesting process whose namespaces the child of a job is to join
ChildRp(c) == dispatched[c.job].target.rp

\* the child forked by run_in_net_and_mnt_namespace
\* (requesting_process.rs:251-270): it exits with status 0 at once when the
\* directory nsroot is gone, and otherwise joins the net and mnt namespaces,
\* runs func and exits with status 0
Entrant(c) ==
    LET found == exists(ns_gone, ChildRp(c).nsroot) IN
    [status |-> 0, setns |-> found, func |-> found]

\* a child process runs its action, if it gets that far, and exits
ChildExit ==
    /\ daemon = "running"
    /\ \E c \in children :
        /\ children' = children \ {c}
        /\ IF Entrant(c).func
           THEN /\ nodes' = [nodes EXCEPT !["container"] = ChildNodes(c)]
                /\ udevdata' = [udevdata EXCEPT !["container"] = ChildUdevData(c)]
                /\ netlink' = ChildNetlink(c)
           ELSE UNCHANGED <<nodes, udevdata, netlink>>
    /\ UNCHANGED <<dvars, cvars, daemon, placement, VUINPUT_STATE, handles,
                   bridge, uinput, input_no, kq, udevvars, storevars, now,
                   sync_state, locals, reply>>

-----------------------------------------------------------------------------
(* The futures of the device jobs, polled by the loop of their target *)

\* the first poll of a job's task follows its creation in the same poll of
\* the loop
Running(t, op) ==
    /\ daemon = "running"
    /\ InPoll("loop", LoopTask(t))
    /\ curpc[t] = "run"
    /\ cur[t].op = op

\* a task that is polled again before the child it awaits has exited
Resumed_Early(t, op, pc) ==
    /\ daemon = "running"
    /\ PollStarts(LoopTask(t))
    /\ curpc[t] = pc
    /\ cur[t].op = op

\* a suspended task is polled again when what it awaits has happened
Resumed(t, op, pc) ==
    /\ daemon = "running"
    /\ PollStarts(LoopTask(t))
    /\ curpc[t] = pc
    /\ cur[t].op = op
    /\ ChildrenExited(cur[t].id)

\* the future returns Pending
Suspend(t, pc) ==
    /\ curpc' = [curpc EXCEPT ![t] = pc]
    /\ thread' = Thread("idle", NoTask, NoJob)
    /\ UNCHANGED cur

\* self.set_state(&State::Finished) as the last statement of a future
Finishes(t) ==
    /\ sync_state' = [sync_state EXCEPT ![cur[t].id] = Finished]
    /\ JobDone(t)

jobRest == <<tx, mainQ, future_handles, dropped, alive, targets, targetQ, cpc,
             dispatched, counter, cvars, daemon, placement, VUINPUT_STATE,
             handles, bridge, uinput, input_no, kq, udevvars,
             next_cleanup, now, netlink, reply>>

\* the Placement::OnHost arm of the jobs' match on get_placement(); the
\* Placement::None arm is empty (mknod_device_job.rs:113-124)
OnHost_OrNone(p) == p \in {"OnHost", "None"}

OnHost(p) == p = "OnHost"

\* mknod_device up to the await or to the end (mknod_device_job.rs:99-128)
MknodRun(t) ==
    /\ Running(t, "mknod")
    /\ IF placement = "InContainer"
       THEN /\ children' = start_action(children, cur[t].id, "MknodDevice",
                                        cur[t].dev, None)
            /\ Suspend(t, "await")
            /\ UNCHANGED <<nodes, sync_state, events>>
       ELSE /\ nodes' = IF OnHost(placement)
                        THEN [nodes EXCEPT !["hostdir"] = @ \cup {cur[t].dev.devnode}]
                        ELSE nodes
            /\ Finishes(t)
            /\ UNCHANGED children
    /\ UNCHANGED <<jobRest, entries, locals, udevdata>>

\* mknod_device after the child has exited
MknodResume(t) ==
    /\ Resumed(t, "mknod", "await")
    /\ Finishes(t)
    /\ UNCHANGED <<jobRest, entries, locals, children, nodes, udevdata>>

\* netlink_data.unwrap() on an entry that holds no add data
\* (remove_device_job.rs:123, remove_from_container_job.rs:107): the panic
\* unwinds the dispatcher thread, which polls no task any more; the job's
\* state stays Started
Panics(t) ==
    /\ sync_state' = [sync_state EXCEPT ![cur[t].id] = Started]
    /\ thread' = Thread("panicked", LoopTask(t), cur[t])
    /\ UNCHANGED <<cur, curpc, events>>

\* the message a remove job sends: the stored add data with ACTION=remove
RemoveMessage(add_data) == [add_data EXCEPT !["ACTION"] = "remove"]

\* remove_device up to its first await or to an early return
\* (remove_device_job.rs:99-172)
RemoveRun(t) ==
    /\ Running(t, "remove")
    /\ LET job == cur[t]
           netlink_event == take_result(entries, job.dev.syspath) IN
       /\ entries' = take_store(entries, job.dev.syspath)
       /\ IF netlink_event = None \/ Unwrap(netlink_event).tombstone
          THEN /\ Finishes(t)
               /\ UNCHANGED <<locals, children, nodes, udevdata>>
          ELSE IF Unwrap(netlink_event).add_data = None
          THEN /\ Panics(t)
               /\ UNCHANGED <<locals, children, nodes, udevdata>>
          ELSE LET netlink_data == RemoveMessage(Unwrap(Unwrap(netlink_event).add_data)) IN
               /\ locals' = [locals EXCEPT ![t] = Locals(Some(netlink_data), None, 0)]
               /\ sync_state' = [sync_state EXCEPT ![job.id] = Started]
               /\ UNCHANGED events
               /\ IF placement = "InContainer"
                  THEN /\ children' =
                            start_action(
                                start_action(children, job.id, "RemoveDevice",
                                             job.dev, None),
                                job.id, "WriteUdevRuntimeData", job.dev, None)
                       /\ Suspend(t, "await12")
                       /\ UNCHANGED <<nodes, udevdata>>
                  ELSE /\ children' = start_action(children, job.id,
                                                   "EmitNetlinkMessage", job.dev,
                                                   Some(netlink_data))
                       /\ Suspend(t, "await3")
                       /\ IF OnHost(placement)
                          THEN /\ nodes' = [nodes EXCEPT !["hostdir"] = @ \ {job.dev.devnode}]
                               /\ udevdata' = [udevdata EXCEPT !["hostdir"] = @ \ {job.dev.minor}]
                          ELSE UNCHANGED <<nodes, udevdata>>
    /\ UNCHANGED jobRest

\* remove_device after the two children of the in-container placement
\* (remove_device_job.rs:170-182)
RemoveResume12(t) ==
    /\ Resumed(t, "remove", "await12")
    /\ children' = start_action(children, cur[t].id, "EmitNetlinkMessage",
                                cur[t].dev, locals[t].netlink_data)
    /\ Suspend(t, "await3")
    /\ UNCHANGED <<jobRest, entries, locals, nodes, udevdata, sync_state, events>>

\* remove_device after the netlink child (remove_device_job.rs:180-183)
RemoveResume3(t) ==
    /\ Resumed(t, "remove", "await3")
    /\ Finishes(t)
    /\ locals' = [locals EXCEPT ![t] = NoLocals]
    /\ UNCHANGED <<jobRest, entries, children, nodes, udevdata>>

\* remove_from_container up to the await or to an early return
\* (remove_from_container_job.rs:87-126)
RemoveFcRun(t) ==
    /\ Running(t, "removefc")
    /\ LET job == cur[t]
           netlink_event == take_result(entries, job.dev.syspath) IN
       /\ entries' = take_store(entries, job.dev.syspath)
       /\ IF netlink_event = None \/ Unwrap(netlink_event).tombstone
          THEN /\ Finishes(t)
               /\ UNCHANGED children
          ELSE IF Unwrap(netlink_event).add_data = None
          THEN /\ Panics(t)
               /\ UNCHANGED children
          ELSE /\ children' =
                    start_action(children, job.id, "RemoveFromContainer", job.dev,
                        Some(RemoveMessage(Unwrap(Unwrap(netlink_event).add_data))))
               /\ sync_state' = [sync_state EXCEPT ![job.id] = Started]
               /\ Suspend(t, "await")
               /\ UNCHANGED events
    /\ UNCHANGED <<jobRest, locals, nodes, udevdata>>

\* remove_from_container after the child (remove_from_container_job.rs:126-127)
RemoveFcResume(t) ==
    /\ Resumed(t, "removefc", "await")
    /\ Finishes(t)
    /\ UNCHANGED <<jobRest, entries, locals, children, nodes, udevdata>>

\* runtime_data::read_udev_data(major, minor).ok(): the content of the
\* host's /run/udev/data/c<major>:<minor>, named by the minor
read_udev_data(minor) == IF minor \in hostudev THEN Some(minor) ELSE None

\* a loop that goes on until both pieces of data are there
EmitLoops_NoLimit(l) == ~(l.netlink_data /= None /\ l.runtime_data /= None)

\* the loop condition of emit_udev_event (emit_udev_event_job.rs:111)
EmitLoops(l) ==
    /\ l.number_of_attempt <= MaxAttempts
    /\ ~(l.netlink_data /= None /\ l.runtime_data /= None)

\* emit_udev_event, one iteration of the loop up to the timer
\* (emit_udev_event_job.rs:111-132), or the statements after the loop up to
\* the first await (lines 133-186); l is the locals on entry
EmitIterate(t, l) ==
    LET job == cur[t]
        netlink_event == IF l.netlink_data = None
                         THEN take_result(entries, job.dev.syspath) ELSE None
        netlink_data == IF netlink_event /= None
                        THEN Unwrap(netlink_event).add_data ELSE l.netlink_data
        runtime_data == IF l.runtime_data = None
                        THEN read_udev_data(job.dev.minor) ELSE l.runtime_data
    IN
    IF EmitLoops(l)
    THEN /\ entries' = IF l.netlink_data = None
                       THEN take_store(entries, job.dev.syspath) ELSE entries
         /\ IF /\ netlink_event /= None
               /\ \/ Unwrap(netlink_event).tombstone
                  \/ Unwrap(netlink_event).remove_data /= None
            THEN /\ JobDone(t)
                 /\ locals' = [locals EXCEPT ![t] = NoLocals]
            ELSE /\ locals' = [locals EXCEPT ![t] =
                                  Locals(netlink_data, runtime_data,
                                         l.number_of_attempt + 1)]
                 /\ Suspend(t, "timer")
                 /\ UNCHANGED events
         /\ UNCHANGED <<children, udevdata>>
    ELSE /\ UNCHANGED entries
         /\ IF l.netlink_data = None \/ l.runtime_data = None
            THEN /\ JobDone(t)
                 /\ locals' = [locals EXCEPT ![t] = NoLocals]
                 /\ UNCHANGED <<children, udevdata>>
            ELSE /\ locals' = [locals EXCEPT ![t] = l]
                 /\ UNCHANGED events
                 /\ IF placement = "InContainer"
                    THEN /\ children' = start_action(children, job.id,
                                                     "WriteUdevRuntimeData",
                                                     job.dev, l.runtime_data)
                         /\ Suspend(t, "await1")
                         /\ UNCHANGED udevdata
                    ELSE /\ children' = start_action(children, job.id,
                                                     "EmitNetlinkMessage",
                                                     job.dev, l.netlink_data)
                         /\ Suspend(t, "await2")
                         /\ udevdata' =
                              IF OnHost(placement)
                              THEN [udevdata EXCEPT !["hostdir"] = @ \cup {job.dev.minor}]
                              ELSE udevdata

\* the state of an emit job after the step: Finished only where the future
\* sets it
EmitState(t, l) ==
    IF ~EmitLoops(l) /\ (l.netlink_data = None \/ l.runtime_data = None)
    THEN Finished ELSE Started

\* emit_udev_event from its start (emit_udev_event_job.rs:103-132)
EmitRun(t) ==
    /\ Running(t, "emit")
    /\ EmitIterate(t, Locals(None, None, 1))
    /\ sync_state' = [sync_state EXCEPT ![cur[t].id] = Started]
    /\ UNCHANGED <<jobRest, nodes>>

\* emit_udev_event after the timer (emit_udev_event_job.rs:131)
EmitAfterTimer(t) ==
    /\ Resumed(t, "emit", "timer")
    /\ EmitIterate(t, locals[t])
    /\ sync_state' = [sync_state EXCEPT ![cur[t].id] = EmitState(t, locals[t])]
    /\ UNCHANGED <<jobRest, nodes>>

\* emit_udev_event after the child that wrote the udev data
\* (emit_udev_event_job.rs:159-184)
EmitResume1(t) ==
    /\ Resumed(t, "emit", "await1")
    /\ children' = start_action(children, cur[t].id, "EmitNetlinkMessage",
                                cur[t].dev, locals[t].netlink_data)
    /\ Suspend(t, "await2")
    /\ UNCHANGED <<jobRest, entries, locals, nodes, udevdata, sync_state, events>>

\* emit_udev_event after the netlink child (emit_udev_event_job.rs:186-188)
EmitResume2(t) ==
    /\ Resumed(t, "emit", "await2")
    /\ Finishes(t)
    /\ locals' = [locals EXCEPT ![t] = NoLocals]
    /\ UNCHANGED <<jobRest, entries, children, nodes, udevdata>>

-----------------------------------------------------------------------------
(* The udev monitor and its environment *)

\* udev_monitor_loop, one wake-up with an event on the socket
\* (monitor_udev_job.rs:192-248)
MonitorPoll ==
    /\ daemon = "running"
    /\ PollStarts(MonitorTask)
    /\ sock /= <<>>
    /\ sock' = Tail(sock)
    /\ LET received == Received(entries, Head(sock), now) IN
       IF now > next_cleanup
       THEN /\ next_cleanup' = now + CleanupInterval
            /\ entries' = cleanup(received, now)
       ELSE /\ entries' = received
            /\ UNCHANGED next_cleanup
    /\ UNCHANGED <<dvars, cvars, daemon, placement, VUINPUT_STATE, handles,
                   bridge, uinput, input_no, kq, hostudev, nother, now,
                   sync_state, locals, contvars, reply>>

\* udevd processes a kernel uevent: it updates /run/udev/data and sends the
\* event to the monitors
Udevd ==
    /\ daemon = "running"
    /\ kq /= <<>>
    /\ kq' = Tail(kq)
    /\ LET k == Head(kq) IN
       /\ hostudev' = IF k.action = "add" THEN hostudev \cup {k.dev.minor}
                      ELSE hostudev \ {k.dev.minor}
       /\ sock' = Append(sock, Uevent(k.action, k.dev, SeqNum(k.action, k.dev.syspath)))
    /\ UNCHANGED <<dvars, cvars, daemon, placement, VUINPUT_STATE, handles,
                   bridge, uinput, input_no, nother, storevars, now,
                   sync_state, locals, contvars, reply>>

\* uevents of the input subsystem that are not the add or remove of a
\* vuinput event node: the parent input device, or a change of a created
\* device
OtherUevents ==
    {ParentUevent("add", input_no, SeqNum("parent", input_no))}
    \cup {Uevent("change", uinput[fh].dev, SeqNum("change", uinput[fh].dev.syspath)) :
            fh \in {f \in DOMAIN uinput : uinput[f].state = "created"}}

OtherUevent ==
    /\ daemon = "running"
    /\ nother < MaxOther
    /\ nother' = nother + 1
    /\ \E u \in OtherUevents : sock' = Append(sock, u)
    /\ UNCHANGED <<dvars, cvars, daemon, placement, VUINPUT_STATE, handles,
                   bridge, uinput, input_no, kq, hostudev, storevars, now,
                   sync_state, locals, contvars, reply>>

\* time passes; a step of the clock is long against the steps of the
\* daemon, which is idle when it is taken
Tick ==
    /\ daemon = "running"
    /\ bridge.pc = "idle"
    /\ thread.pc = "idle"
    /\ mainQ = <<>>
    /\ \A t \in QueueTargets : cur[t] = NoJob /\ targetQ[t] = <<>>
    /\ now < MaxTicks * TickSecs
    /\ now' = now + TickSecs
    /\ UNCHANGED <<dvars, cvars, daemon, placement, VUINPUT_STATE, handles,
                   bridge, uinput, input_no, kq, udevvars, storevars,
                   sync_state, locals, contvars, reply>>

-----------------------------------------------------------------------------

BridgeStep ==
    \/ Open
    \/ IoctlSetup
    \/ IoctlCreate
    \/ IoctlCreateReply
    \/ IoctlDestroy
    \/ IoctlDestroyReply
    \/ Release
    \/ ReleaseReply

SessionTargets == {Container(rp) : rp \in {c \in Clients : CrossNamespace(c)}}

JobStep ==
    \E t \in SessionTargets :
        \/ MknodRun(t)
        \/ MknodResume(t)
        \/ EmitRun(t)
        \/ EmitAfterTimer(t)
        \/ EmitResume1(t)
        \/ EmitResume2(t)
        \/ RemoveRun(t)
        \/ RemoveResume12(t)
        \/ RemoveResume3(t)
        \/ RemoveFcRun(t)
        \/ RemoveFcResume(t)

EngineStep ==
    \/ DispRecv
    \/ DispPush
    \/ DispPending
    \/ \E t \in SessionTargets : LoopRecv(t)
    \/ \E t \in SessionTargets : LoopPending(t)

Next ==
    \/ BridgeStep
    \/ EngineStep
    \/ JobStep
    \/ MonitorPoll
    \/ ChildExit
    \/ Udevd
    \/ OtherUevent
    \/ Tick

Spec == Init /\ [][Next]_vars

-----------------------------------------------------------------------------
(* Properties of the job engine *)

Done(id) == \E i \in 1..Len(events) : events[i] = <<"done", id>>

\* the job with this id was complete when event number i happened
DoneBefore(id, i) == \E k \in 1..(i - 1) : events[k] = <<"done", id>>

\* every start of a job comes after the completion of every job dispatched
\* before it that SameQueue relates to it
StartsInOrder(SameQueue(_, _)) ==
    \A i \in 1..Len(events) :
        events[i][1] = "start" =>
            \A k \in 1..(events[i][2] - 1) :
                SameQueue(dispatched[k], dispatched[events[i][2]])
                    => DoneBefore(k, i)

SameTarget(a, b) == JobTargetEq(a.target, b.target)

SameMntAndNet(a, b) ==
    /\ a.target.kind = "Container"
    /\ b.target.kind = "Container"
    /\ equal_mnt_and_net(a.target.rp.namespaces, b.target.rp.namespaces)

\* C1: jobs with the same job_target() run one after another in dispatch
\* order: a job's task starts only after the task of every job dispatched
\* earlier for that target has completed.
C1_PerTargetFifo == StartsInOrder(SameTarget)

\* Two jobs of one container target have both run, the second after the first.
C1_Witness ==
    /\ Len(dispatched) = 2
    /\ dispatched[1].target = Container(RpA1)
    /\ dispatched[2].target = Container(RpA1)
    /\ Done(1)
    /\ Done(2)

\* C7: when wait_until_finished() has returned, every dispatched job whose
\* execute_after_cancellation() is true has run to completion.
C7_CleanupJobsDrained ==
    cpc = "joined" =>
        \A k \in 1..Len(dispatched) :
            dispatched[k].execute_after_cancellation => Done(k)

HostIds == SelectSeq([k \in 1..Len(dispatched) |-> k],
                     LAMBDA k : dispatched[k].target = Host)

HostDone == SelectSeq(events,
                      LAMBDA e : e[1] = "done" /\ dispatched[e[2]].target = Host)

\* C8: when wait_until_finished() has returned, every job dispatched to the
\* Host target has run to completion exactly once and in dispatch order; the
\* counter of test_job_ordering is 6.
C8_HostJobsAllRun ==
    cpc = "joined" =>
        /\ [i \in 1..Len(HostDone) |-> HostDone[i][2]] = HostIds
        /\ (Len(dispatched) = 2 /\ dispatched[1].op = "set5"
              /\ dispatched[2].op = "inc") => counter = 6

\* C9: after close(), wait_until_finished() returns.
C9_WaitReturns == (cpc = "closing") ~> (cpc = "joined")

\* C10: jobs whose RequestingProcess values have equal mnt and net inodes
\* run in FIFO order relative to each other.
C10_SameNamespacesFifo == StartsInOrder(SameMntAndNet)

-----------------------------------------------------------------------------
(* Properties of the sessions *)

JobIds == 1..Len(dispatched)

\* the identities stored by UI_DEV_CREATE in a session of another namespace:
\* each has its mknod job
StoredIdentities == {dispatched[j].dev : j \in {i \in JobIds : dispatched[i].op = "mknod"}}

RemoveJobsFor(dev) ==
    {j \in JobIds : dispatched[j].op \in {"remove", "removefc"} /\ dispatched[j].dev = dev}

\* a session holds the identity, or the callback that took it has not replied
Held(dev) ==
    \/ \E fh \in DOMAIN VUINPUT_STATE : VUINPUT_STATE[fh].input_device = Some(dev)
    \/ /\ bridge.pc = "await"
       /\ bridge.op \in {"destroy", "release"}
       /\ dispatched[bridge.job].dev = dev

\* the kernel's device of the identity exists
HostDeviceExists(dev) == \E fh \in DOMAIN uinput : uinput[fh].dev = dev

\* C2: in a session of another namespace the reply to UI_DEV_CREATE is sent
\* only when the MknodDeviceJob dispatched for it has reached Finished.
C2_CreateReplyAfterMknod ==
    (reply.op = "create" /\ CrossNamespace(reply.rp)) =>
        /\ reply.job \in JobIds
        /\ dispatched[reply.job].op = "mknod"
        /\ sync_state[reply.job] = Finished

\* the reply to the UI_DEV_CREATE of a container's session has been sent
C2_Witness ==
    /\ reply.op = "create"
    /\ CrossNamespace(reply.rp)
    /\ reply.val = 0
    /\ sync_state[reply.job] = Finished

\* C3: for every identity stored in a session of another namespace at most
\* one remove job is ever dispatched, and once the destroy or release that
\* took the identity has replied exactly one has been dispatched for it and
\* has run to completion.
C3_OneRemoveJobPerIdentity ==
    \A dev \in StoredIdentities :
        /\ Cardinality(RemoveJobsFor(dev)) <= 1
        /\ ~Held(dev) =>
              /\ Cardinality(RemoveJobsFor(dev)) = 1
              /\ \A j \in RemoveJobsFor(dev) : Done(j) /\ sync_state[j] = Finished

\* a device was destroyed, another created on the same session and the
\* session released: each has its own remove job, and both have run
C3_Witness ==
    /\ reply.op = "release"
    /\ Cardinality(StoredIdentities) = 2
    /\ \A dev \in StoredIdentities :
          ~Held(dev) /\ Cardinality(RemoveJobsFor(dev)) = 1
    /\ \E j \in JobIds : dispatched[j].op = "remove" /\ Done(j)
    /\ \E j \in JobIds : dispatched[j].op = "removefc" /\ Done(j)

AddEmitted(dev) ==
    \E i \in 1..Len(netlink) :
        /\ netlink[i]["ACTION"] = "add"
        /\ netlink[i]["DEVPATH"] = DevPath(dev.syspath, dev.devnode)

RemoveEmitted(dev) ==
    \E i \in 1..Len(netlink) :
        /\ netlink[i]["ACTION"] = "remove"
        /\ netlink[i]["DEVPATH"] = DevPath(dev.syspath, dev.devnode)

\* C4: with the in-container placement, when the add uevent of a device was
\* emitted into the container, the reply to its UI_DEV_DESTROY comes after
\* the device node and the udev data file were removed there and the remove
\* uevent was emitted there.
C4_DestroyRemovesFromContainer ==
    (/\ placement = "InContainer"
     /\ reply.op = "destroy"
     /\ reply.job \in JobIds
     /\ AddEmitted(dispatched[reply.job].dev)
     /\ dispatched[reply.job].dev.devnode \notin EventsInUse) =>
        LET dev == dispatched[reply.job].dev IN
        /\ RemoveEmitted(dev)
        /\ dev.devnode \notin nodes["container"]
        /\ dev.minor \notin udevdata["container"]

\* C5: the host device of an identity stored in a session of another
\* namespace is destroyed (by UI_DEV_DESTROY or by the close of the file)
\* only when a remove job for it has reached Finished.
C5_RemoveBeforeHostDestroy ==
    \A dev \in StoredIdentities :
        ~HostDeviceExists(dev) =>
            \E j \in RemoveJobsFor(dev) : sync_state[j] = Finished

\* host devices are gone after a UI_DEV_DESTROY and after a release, each
\* with its remove job finished
C5_Witness ==
    /\ \E j \in JobIds :
          /\ dispatched[j].op = "remove"
          /\ sync_state[j] = Finished
          /\ ~HostDeviceExists(dispatched[j].dev)
    /\ \E j \in JobIds :
          /\ dispatched[j].op = "removefc"
          /\ sync_state[j] = Finished
          /\ ~HostDeviceExists(dispatched[j].dev)

\* C6: when a release has been replied to, the session is no longer in the
\* registry and the host file is closed; the reply is 0.
C6_ReleaseClosesSession ==
    /\ \A fh \in DOMAIN uinput :
          ~uinput[fh].client => fh \notin DOMAIN VUINPUT_STATE /\ ~uinput[fh].open
    /\ reply.op = "release" => reply.val = 0

\* a release of a container's session that held an identity has been
\* replied to
C6_Witness ==
    /\ reply.op = "release"
    /\ reply.job \in JobIds
    /\ ~uinput[reply.fh].open
    /\ reply.fh \notin DOMAIN VUINPUT_STATE

-----------------------------------------------------------------------------
(* The event store on its own (jobs/monitor_udev_job.rs: EventStore): any   *)
(* sequence of on_event, take and cleanup, with the clock advancing in     *)
(* between.                                                                *)

\* syspaths (input numbers) and sequence numbers of the events stored
StorePaths == {1, 2}
MaxSeq == 2

StoreEvents ==
    {UdevEvent(p, seq, kind, [k \in {"ACTION"} |-> kind]) :
        p \in StorePaths, seq \in 1..MaxSeq, kind \in {"Add", "Remove"}}

InitES ==
    /\ InitD
    /\ InitIdle

esRest == <<dvars, daemon, placement, VUINPUT_STATE, handles, bridge,
            uinput, input_no, kq, udevvars, next_cleanup, sync_state, locals,
            contvars, reply, policy, DEDUP_LAST_ERROR, request, hostops,
            udev_run, ns_gone, rp_run, sync_run>>

\* EVENT_STORE.lock().unwrap().on_event(event)
StoreOnEvent ==
    /\ \E event \in StoreEvents :
        /\ entries' = on_event(entries, event, now)
        /\ store_log' =
             StoreLog(IF event.kind = "Remove"
                      THEN store_log.ever \cup {event.syspath}
                      ELSE store_log.ever,
                      store_log.taken,
                      IF event.kind = "Remove"
                      THEN store_log.removed \cup {event.syspath}
                      ELSE store_log.removed \ {event.syspath},
                      store_log.quiet \ {event.syspath},
                      store_log.last)
    /\ UNCHANGED <<esRest, now>>

\* EVENT_STORE.lock().unwrap().take(syspath)
StoreTake ==
    /\ \E p \in StorePaths :
        /\ entries' = take_store(entries, p)
        /\ store_log' =
             StoreLog(store_log.ever,
                      IF p \in store_log.ever
                      THEN store_log.taken \cup {p} ELSE store_log.taken,
                      store_log.removed,
                      IF p \in store_log.removed
                      THEN store_log.quiet \cup {p} ELSE store_log.quiet,
                      [syspath |-> p,
                       result |-> take_result(entries, p),
                       unchanged |-> (take_store(entries, p) = entries),
                       after |-> (p \in store_log.taken),
                       quiet |-> (p \in store_log.quiet)])
    /\ UNCHANGED <<esRest, now>>

\* EVENT_STORE.lock().unwrap().cleanup()
StoreCleanup ==
    /\ entries' = cleanup(entries, now)
    /\ store_log' = [store_log EXCEPT
                        !.removed = {}, !.quiet = {},
                        !.swept = {p \in DOMAIN entries \ DOMAIN cleanup(entries, now) :
                                      ~entries[p].tombstone}]
    /\ UNCHANGED <<esRest, now>>

\* the time that passes between two operations: nothing, or the TTL
StoreTicks == {Ttl}

\* Instant::now() between two operations
StoreTick ==
    /\ \E d \in StoreTicks :
        /\ now + d <= Ttl
        /\ now' = now + d
    /\ UNCHANGED <<esRest, entries, store_log>>

NextES ==
    \/ StoreOnEvent
    \/ StoreTake
    \/ StoreCleanup
    \/ StoreTick

SpecES == InitES /\ [][NextES]_vars

\* the last take returned an entry with the tombstone set and left the
\* store as it was
TookTombstone ==
    /\ store_log.last.result /= None
    /\ Unwrap(store_log.last.result).tombstone
    /\ store_log.last.unchanged

\* C11, as stated: once a Remove event for p has been stored and take(p) has
\* been called, every later take(p) returns an entry with tombstone = true
\* and leaves the store unchanged, whatever operations come in between.
C11_TombstoneForever ==
    store_log.last.after => TookTombstone

\* C11, as the store behaves: once a Remove event for p has been stored and
\* take(p) has been called with no Add event for p and no cleanup in
\* between, every later take(p) returns an entry with tombstone = true and
\* leaves the store unchanged as long as no event for p has been stored and
\* no cleanup has run since the Remove event.
C11_TombstoneUntilEventOrSweep ==
    (store_log.last.after /\ store_log.last.quiet) => TookTombstone

\* a second take after the Remove event and the first take, nothing else in
\* between: it returned the tombstoned entry
C11_Witness ==
    /\ store_log.last.after
    /\ store_log.last.quiet
    /\ TookTombstone
    /\ Unwrap(store_log.last.result).remove_data /= None

-----------------------------------------------------------------------------
(* The forwarding callbacks: vuinput_write and vuinput_ioctl with its      *)
(* retry table, on sessions of processes in the daemon's own namespaces.   *)

\* records in one client write
MaxRecords == 2

\* The time fields of input_event_compat are 32 bits wide and those of
\* input_event 64 bits; the model keeps the ratio at a smaller width.
CompatTimeBits == 4

\* cuse_device/device_policy.rs: event types and key codes
EV_SYN == 0
EV_KEY == 1
EV_REL == 2
EV_ABS == 3
EV_FF == 21
KEY_LEFTALT == 56
KEY_RIGHTALT == 100
KEY_LEFTCTRL == 29
KEY_RIGHTCTRL == 97
KEY_F1 == 59
KEY_F10 == 68
KEY_F11 == 87
KEY_F12 == 88
KEY_SYSRQ == 99
KEY_DELETE == 111
KEY_KPDOT == 83
KEY_POWER == 116
KEY_SLEEP == 142
KEY_WAKEUP == 143
BTN_SOUTH == 304
BTN_THUMBR == 318
BTN_DPAD_UP == 544
BTN_GRIPR2 == 551

\* size_of::<input_event_compat>(), size_of::<libc::input_event>() and
\* size_of::<libc::uinput_user_dev>() (vuinput_write.rs:91, 92, 50)
CompatSize == 16
NormalSize == 24
LegacySize == 1116

\* libc::input_event
input_event(tv_sec, tv_usec, type_, code, value) ==
    [tv_sec |-> tv_sec, tv_usec |-> tv_usec, type_ |-> type_, code |-> code,
     value |-> value]

\* input_event_compat (vuinput_write.rs:135-142)
input_event_compat(input_event_sec, input_event_usec, type_, code, value) ==
    [input_event_sec |-> input_event_sec, input_event_usec |-> input_event_usec,
     type_ |-> type_, code |-> code, value |-> value]

\* a widening that copies the top bit of the narrow value into the new bits
Widen_SignExtend(x) ==
    IF x >= 2 ^ (CompatTimeBits - 1) THEN x - 2 ^ CompatTimeBits ELSE x

\* u32 into i64: the new high bits are zero, the value is read as signed
Widen(x) ==
    LET bits == x % (2 ^ CompatTimeBits)
    IN  IF bits >= 2 ^ (2 * CompatTimeBits - 1)
        THEN bits - 2 ^ (2 * CompatTimeBits) ELSE bits

\* map_to_64_bit (vuinput_write.rs:156-165)
map_to_64_bit(compat) ==
    input_event(Widen(compat.input_event_sec), Widen(compat.input_event_usec),
                compat.type_, compat.code, compat.value)

\* state.rs:21-38
KeyTracker(left_alt_down, right_alt_down, left_ctrl_down, right_ctrl_down) ==
    [left_alt_down |-> left_alt_down, right_alt_down |-> right_alt_down,
     left_ctrl_down |-> left_ctrl_down, right_ctrl_down |-> right_ctrl_down]

\* is_allowed_in_sanitized_mode (device_policy.rs:57-109): the key tracker
\* after lines 62-70
track_keys(keytracker, event) ==
    IF event.type_ /= EV_KEY THEN keytracker
    ELSE CASE event.code = KEY_LEFTALT ->
                [keytracker EXCEPT !.left_alt_down = event.value > 0]
           [] event.code = KEY_RIGHTALT ->
                [keytracker EXCEPT !.right_alt_down = event.value > 0]
           [] event.code = KEY_LEFTCTRL ->
                [keytracker EXCEPT !.left_ctrl_down = event.value > 0]
           [] event.code = KEY_RIGHTCTRL ->
                [keytracker EXCEPT !.right_ctrl_down = event.value > 0]
           [] OTHER -> keytracker

\* is_allowed_in_sanitized_mode (device_policy.rs:57-109): the result
is_allowed_in_sanitized_mode(keytracker, event) ==
    LET kt == track_keys(keytracker, event)
        code == event.code
        alt_down == kt.left_alt_down \/ kt.right_alt_down
        ctrl_down == kt.left_ctrl_down \/ kt.right_ctrl_down
    IN  IF event.type_ /= EV_KEY THEN TRUE
        ELSE IF code = KEY_SYSRQ THEN FALSE
        ELSE IF alt_down /\ code >= KEY_F1 /\ code <= KEY_F10 THEN FALSE
        ELSE IF alt_down /\ code >= KEY_F11 /\ code <= KEY_F12 THEN FALSE
        ELSE IF alt_down /\ ctrl_down /\ code \in {KEY_DELETE, KEY_KPDOT} THEN FALSE
        ELSE code \notin {KEY_POWER, KEY_SLEEP, KEY_WAKEUP}

\* is_allowed_in_strict_gamepad_mode (device_policy.rs:111-133)
is_allowed_in_strict_gamepad_mode(keytracker, event) ==
    IF event.type_ \in {EV_SYN, EV_ABS, EV_FF} THEN TRUE
    ELSE IF event.type_ = EV_KEY
         THEN \/ event.code >= BTN_SOUTH /\ event.code < BTN_THUMBR
              \/ event.code >= BTN_DPAD_UP /\ event.code < BTN_GRIPR2
         ELSE FALSE

\* is_allowed (device_policy.rs:49-55).  The function has no arm for
\* MuteSysRq, and no callback calls it: vuinput_write forwards every record.
is_allowed(keytracker, device_policy, event) ==
    CASE device_policy = "None" -> TRUE
      [] device_policy = "Sanitized" ->
            is_allowed_in_sanitized_mode(keytracker, event)
      [] device_policy = "StrictGamepad" ->
            is_allowed_in_strict_gamepad_mode(keytracker, event)

\* A compat process in the daemon's namespaces.
RpHostCompat ==
    RequestingProcess("/proc/21/ns", "/proc/1/ns", Namespaces(1, 1, 3), TRUE)

HostClients == {RpHost, RpHostCompat}

\* What a client writes: a few events, <<sec, usec, type, code, value>>, in
\* the record layout of its session. One of them carries the largest time a
\* compat record can hold.
MaxCompatTime == 2 ^ CompatTimeBits - 1

ClientEvents ==
    {<<1, 1, EV_KEY, KEY_SYSRQ, 1>>, <<1, 1, EV_KEY, KEY_LEFTALT, 1>>,
     <<1, 1, EV_KEY, KEY_F1, 1>>,
     <<MaxCompatTime, MaxCompatTime, EV_REL, 0, 1>>}

ClientRecords(is_compat) ==
    IF is_compat
    THEN {input_event_compat(e[1], e[2], e[3], e[4], e[5]) : e \in ClientEvents}
    ELSE {input_event(e[1], e[2], e[3], e[4], e[5]) : e \in ClientEvents}

ClientWrites(is_compat) ==
    UNION {[1..n -> ClientRecords(is_compat)] : n \in 0..MaxRecords}

\* bytes after the last complete record
Rests == {0, 8}

\* the legacy uinput_user_dev of a client: abs is the set of axes with a
\* nonzero absmin or absmax
LegacyDevs ==
    {[name |-> "pad", version |-> 1, ff_effects_max |-> 0, abs |-> a] :
        a \in {{}, {0}, {0, 1}}}

\* File::write on the host file: all 24 bytes, fewer, or an error
WriteResults == {"Full", "Short", "Err"}

\* the results of the host writes of one client write of n records: at most
\* one of them is not a full write
HostResults(n) ==
    {[i \in 1..n |-> IF i = bad THEN res ELSE "Full"] :
        bad \in 0..n, res \in WriteResults}

HostWrite(buf, res) == [op |-> "write", buf |-> buf, res |-> res]
HostIoctl(cmd, arg) == [op |-> "ioctl", cmd |-> cmd, arg |-> arg]

Modifiers == {KEY_LEFTALT, KEY_RIGHTALT, KEY_LEFTCTRL, KEY_RIGHTCTRL}

HeldAfterOne(held, ev) ==
    IF ev.type_ = EV_KEY /\ ev.code \in Modifiers
    THEN IF ev.value > 0 THEN held \cup {ev.code} ELSE held \ {ev.code}
    ELSE held

RECURSIVE HeldAfter(_, _)
HeldAfter(held, records) ==
    IF records = <<>> THEN held
    ELSE HeldAfter(HeldAfterOne(held, Head(records)), Tail(records))

\* The modifier keys a session holds down, by the EV_KEY events written to
\* it: before the last callback, and now.
HeldBefore(fh) == IF fh \in DOMAIN request.held THEN request.held[fh] ELSE {}

HeldOf(fh) ==
    IF request.op = "write" /\ request.fh = fh /\ ~request.legacy
    THEN HeldAfter(HeldBefore(fh), request.records)
    ELSE HeldBefore(fh)

HeldNow == [fh \in DOMAIN VUINPUT_STATE |-> HeldOf(fh)]

\* a client write: its size, the branch that handled it, its complete records
\* (or its uinput_user_dev) and the modifiers each session held before it
WriteRequest(fh, size, legacy, records, dev, held) ==
    [op |-> "write", fh |-> fh, size |-> size, legacy |-> legacy,
     records |-> records, dev |-> dev, pending |-> FALSE, held |-> held]

\* the client is inside an ioctl that was answered with a retry
Pending == request.pending

\* the native record the loop writes for a client record
Native(is_compat, record) == IF is_compat THEN map_to_64_bit(record) ELSE record

\* the loop of vuinput_write (vuinput_write.rs:96-111): the number of host
\* writes made when the i-th write returns outs[i]
Performed(n, outs) ==
    IF \E i \in 1..n : outs[i] = "Err"
    THEN CHOOSE i \in 1..n : outs[i] = "Err" /\ \A j \in 1..(i - 1) : outs[j] /= "Err"
    ELSE n

fwdRest == <<engineRest, events, placement, handles, udevvars, storevars,
             now, locals, contvars, policy, store_log, udev_run, ns_gone,
             rp_run, sync_run>>

sessRest == <<VUINPUT_STATE, input_no, kq, mainQ, dispatched, sync_state, bridge>>

\* vuinput_write, the session has no device: legacy setup
\* (vuinput_write.rs:47-86)
LegacySetup(fh, size, dev) ==
    /\ request' = WriteRequest(fh, size, TRUE, <<>>, dev, HeldNow)
    /\ IF size /= LegacySize \/ uinput[fh].state = "created"
       THEN /\ Abort(fh)
            /\ hostops' = <<>>
            /\ UNCHANGED <<uinput, reply>>
       ELSE /\ uinput' = [uinput EXCEPT ![fh].state = "setup"]
            /\ hostops' =
                 <<HostIoctl("UI_DEV_SETUP",
                             [bustype |-> "BUS_USB", vendor |-> 4617,
                              product |-> 20512, version |-> dev.version,
                              ff_effects_max |-> dev.ff_effects_max,
                              name |-> dev.name])>>
                 \o (IF 0 \in dev.abs THEN <<HostIoctl("UI_ABS_SETUP", 0)>> ELSE <<>>)
                 \o (IF 1 \in dev.abs THEN <<HostIoctl("UI_ABS_SETUP", 1)>> ELSE <<>>)
            /\ reply' = Reply("write", fh, size, 0, VUINPUT_STATE[fh].requesting_process)
            /\ UNCHANGED daemon
    /\ UNCHANGED DEDUP_LAST_ERROR

\* vuinput_write, the session has a device (vuinput_write.rs:88-131)
ForwardEvents(fh, records, rest, outs) ==
    LET rp == VUINPUT_STATE[fh].requesting_process
        is_compat == rp.is_compat
        recsize == IF is_compat THEN CompatSize ELSE NormalSize
        size == Len(records) * recsize + rest
        k == Performed(Len(records), outs)
        bytes == k * recsize
        failed == k > 0 /\ outs[k] = "Err"
    IN  /\ request' = WriteRequest(fh, size, FALSE, records, {}, HeldNow)
        /\ hostops' = [i \in 1..k |-> HostWrite(Native(is_compat, records[i]), outs[i])]
        /\ IF failed
           THEN /\ DEDUP_LAST_ERROR' = Some(fh)
                /\ reply' = Reply("write", fh, -EIO, 0, rp)
           ELSE /\ reply' = Reply("write", fh, bytes, 0, rp)
                /\ UNCHANGED DEDUP_LAST_ERROR
        /\ UNCHANGED <<daemon, uinput>>

\* vuinput_write (vuinput_write.rs:29-131)
Write ==
    /\ TakesRequest
    /\ ~Pending
    /\ \E fh \in ClientFiles :
        IF VUINPUT_STATE[fh].input_device = None
        THEN \E size \in {LegacySize, NormalSize, CompatSize}, dev \in LegacyDevs :
                LegacySetup(fh, size, dev)
        ELSE \E records \in ClientWrites(VUINPUT_STATE[fh].requesting_process.is_compat),
                rest \in Rests :
                \E outs \in HostResults(Len(records)) :
                    ForwardEvents(fh, records, rest, outs)
    /\ UNCHANGED <<fwdRest, sessRest>>

\* the ioctl commands of uinput-ioctls/src/lib.rs, and one that is not there
SetBitCmds ==
    {"UI_SET_EVBIT", "UI_SET_KEYBIT", "UI_SET_RELBIT", "UI_SET_ABSBIT",
     "UI_SET_MSCBIT", "UI_SET_LEDBIT", "UI_SET_SNDBIT", "UI_SET_FFBIT",
     "UI_SET_SWBIT", "UI_SET_PROPBIT"}

FfCmds ==
    {"UI_BEGIN_FF_UPLOAD", "UI_END_FF_UPLOAD", "UI_BEGIN_FF_ERASE",
     "UI_END_FF_ERASE"}

IoctlCmds ==
    {"UI_DEV_CREATE", "UI_DEV_DESTROY", "UI_DEV_SETUP", "UI_ABS_SETUP",
     "UI_GET_SYSNAME", "UI_GET_VERSION", "UI_SET_PHYS", "EVIOCGVERSION"}
    \cup SetBitCmds \cup FfCmds

\* what the client passes with an ioctl (the argument or the structure)
IoctlArgs == {1, 2}

\* size_of the structures the retry table names, and the two lengths it
\* gives as numbers
SizeOf(type) ==
    CASE type = "uinput_abs_setup" -> 28
      [] type = "uinput_setup" -> 92
      [] type = "c_uint" -> 4
      [] type = "uinput_ff_upload" -> 104
      [] type = "uinput_ff_erase" -> 12
      [] type = "sysname" -> 64
      [] type = "phys" -> 1024

\* the iovecs of a fuse_reply_ioctl_retry: lengths, 0 where there is none
Iov(in_len, out_len) == [in_len |-> in_len, out_len |-> out_len]

\* a table that never asks for a buffer
ioctl_retry_Never(in_bufsz, out_bufsz, cmd) == None

\* vuinput_ioctl, the match on (_in_bufsz, _out_bufsz, cmd_normalized)
\* (vuinput_ioctl.rs:53-148): the retry to reply with, if any
ioctl_retry(in_bufsz, out_bufsz, cmd) ==
    CASE in_bufsz = 0 /\ cmd = "UI_ABS_SETUP" ->
            Some(Iov(SizeOf("uinput_abs_setup"), 0))
      [] out_bufsz = 0 /\ cmd = "UI_GET_SYSNAME" -> Some(Iov(0, SizeOf("sysname")))
      [] out_bufsz = 0 /\ cmd = "UI_GET_VERSION" -> Some(Iov(0, SizeOf("c_uint")))
      [] in_bufsz = 0 /\ cmd = "UI_DEV_SETUP" -> Some(Iov(SizeOf("uinput_setup"), 0))
      [] in_bufsz = 0 /\ cmd = "UI_SET_PHYS" -> Some(Iov(SizeOf("phys"), 0))
      [] in_bufsz = 0 /\ cmd = "UI_BEGIN_FF_UPLOAD" ->
            Some(Iov(SizeOf("uinput_ff_upload"), SizeOf("uinput_ff_upload")))
      [] in_bufsz = 0 /\ cmd = "UI_END_FF_UPLOAD" ->
            Some(Iov(SizeOf("uinput_ff_upload"), 0))
      [] in_bufsz = 0 /\ cmd = "UI_BEGIN_FF_ERASE" ->
            Some(Iov(SizeOf("uinput_ff_erase"), SizeOf("uinput_ff_erase")))
      [] in_bufsz = 0 /\ cmd = "UI_END_FF_ERASE" ->
            Some(Iov(SizeOf("uinput_ff_erase"), 0))
      [] OTHER -> None

\* an ioctl call as the bridge delivers it
IoctlCall(fh, cmd, arg, in_bufsz, out_bufsz) ==
    [fh |-> fh, cmd |-> cmd, arg |-> arg, in_bufsz |-> in_bufsz,
     out_bufsz |-> out_bufsz]

\* The bridge delivers an ioctl of a client without any buffer mapped; after
\* a retry reply it delivers the same ioctl with the buffers asked for.
IoctlCalls ==
    IF Pending
    THEN {IoctlCall(request.fh, request.cmd, request.arg, request.want.in_len,
                    request.want.out_len)}
    ELSE {IoctlCall(fh, cmd, arg, 0, 0) :
            fh \in ClientFiles, cmd \in IoctlCmds, arg \in IoctlArgs}

\* the ioctl being answered: the call, the retries it has been answered with
\* so far, and the buffers the last retry asked for
IoctlRequest(call, retries, pending, want) ==
    [op |-> "ioctl", fh |-> call.fh, cmd |-> call.cmd, arg |-> call.arg,
     in_bufsz |-> call.in_bufsz, out_bufsz |-> call.out_bufsz,
     retries |-> retries, pending |-> pending, want |-> want,
     held |-> HeldNow]

RetriesSoFar == IF Pending THEN request.retries ELSE 0

\* fuse_reply_ioctl_retry and return (vuinput_ioctl.rs:53-148)
IoctlRetry(call, want) ==
    /\ reply' = Reply("retry", call.fh, 0, 0, VUINPUT_STATE[call.fh].requesting_process)
    /\ request' = IoctlRequest(call, RetriesSoFar + 1, TRUE, want)
    /\ hostops' = <<>>
    /\ UNCHANGED <<daemon, uinput, sessRest>>

\* a host ioctl made with unwrap(), then fuse_reply_ioctl(_req, 0, ...): the
\* callback panics when the host ioctl fails
HostIoctlAndReply(call, ok) ==
    /\ hostops' = <<HostIoctl(call.cmd, call.arg)>>
    /\ IF ok
       THEN /\ reply' = Reply("ioctl", call.fh, 0, 0,
                              VUINPUT_STATE[call.fh].requesting_process)
            /\ UNCHANGED daemon
       ELSE /\ Abort(call.fh)
            /\ UNCHANGED reply
    /\ UNCHANGED <<uinput, sessRest>>

\* vuinput_ioctl, the match on cmd_normalized (vuinput_ioctl.rs:153-418)
IoctlExecute(call) ==
    LET fh == call.fh
        cmd == call.cmd
        rp == VUINPUT_STATE[fh].requesting_process
        state == uinput[fh].state IN
    /\ request' = IoctlRequest(call, RetriesSoFar, FALSE, Iov(0, 0))
    /\ CASE cmd = "UI_DEV_CREATE" ->
              /\ DevCreate(fh)
              /\ hostops' = IF state = "setup"
                            THEN <<HostIoctl("UI_DEV_CREATE", 0),
                                   HostIoctl("UI_GET_SYSNAME", 0)>>
                            ELSE <<HostIoctl("UI_DEV_CREATE", 0)>>
         [] cmd = "UI_DEV_DESTROY" ->
              /\ DevDestroy(fh)
              /\ hostops' = <<HostIoctl("UI_DEV_DESTROY", 0)>>
              /\ UNCHANGED <<daemon, input_no>>
         [] cmd = "UI_DEV_SETUP" ->
              IF call.in_bufsz = 0
              THEN /\ Abort(fh)
                   /\ hostops' = <<>>
                   /\ UNCHANGED <<uinput, reply, sessRest>>
              ELSE /\ DevSetup(fh)
                   /\ hostops' =
                        <<HostIoctl("UI_DEV_SETUP",
                                    [bustype |-> "BUS_USB", vendor |-> 4617,
                                     product |-> 20512, rest |-> call.arg])>>
                   /\ UNCHANGED sessRest
         [] cmd = "UI_ABS_SETUP" ->
              /\ hostops' = <<>>
              /\ IF call.in_bufsz = 0
                 THEN Abort(fh) /\ UNCHANGED reply
                 ELSE reply' = Reply("ioctl", fh, 0, 0, rp) /\ UNCHANGED daemon
              /\ UNCHANGED <<uinput, sessRest>>
         [] cmd = "UI_GET_SYSNAME" ->
              IF call.out_bufsz /= SizeOf("sysname")
              THEN /\ Abort(fh)
                   /\ hostops' = <<>>
                   /\ UNCHANGED <<uinput, reply, sessRest>>
              ELSE HostIoctlAndReply(call, state = "created")
         [] cmd = "UI_GET_VERSION" -> HostIoctlAndReply(call, TRUE)
         [] cmd \in SetBitCmds -> HostIoctlAndReply(call, state /= "created")
         [] cmd = "UI_SET_PHYS" ->
              IF call.in_bufsz = 0
              THEN /\ Abort(fh)
                   /\ hostops' = <<>>
                   /\ UNCHANGED <<uinput, reply, sessRest>>
              ELSE HostIoctlAndReply(call, state /= "created")
         [] cmd \in FfCmds ->
              IF call.in_bufsz = 0
              THEN /\ Abort(fh)
                   /\ hostops' = <<>>
                   /\ UNCHANGED <<uinput, reply, sessRest>>
              ELSE \E ok \in BOOLEAN : HostIoctlAndReply(call, ok)
         [] OTHER ->
              /\ reply' = Reply("ioctl", fh, -EBADRQC, 0, rp)
              /\ hostops' = <<>>
              /\ UNCHANGED <<daemon, uinput, sessRest>>

\* vuinput_ioctl (vuinput_ioctl.rs:24-418)
Ioctl ==
    /\ TakesRequest
    /\ \E call \in IoctlCalls :
        LET retry == ioctl_retry(call.in_bufsz, call.out_bufsz, call.cmd) IN
        IF retry /= None
        THEN IoctlRetry(call, Unwrap(retry))
        ELSE IoctlExecute(call)
    /\ UNCHANGED <<fwdRest, DEDUP_LAST_ERROR>>

\* open and release while the client is not inside an ioctl
ForwardOpen == ~Pending /\ OpenBy(HostClients)
ForwardRelease == ~Pending /\ Release

InitC ==
    /\ InitDaemon
    /\ policy \in Policies
    /\ placement = "InContainer"

NextC ==
    \/ ForwardOpen
    \/ Ioctl
    \/ Write
    \/ ForwardRelease

SpecC == InitC /\ [][NextC]_vars

-----------------------------------------------------------------------------
(* Properties of the forwarding callbacks (SpecC)                          *)

\* the last callback was a vuinput_write that went through the event loop
\* and replied
WroteEvents ==
    /\ daemon /= "aborted"
    /\ request.op = "write"
    /\ reply.op = "write"
    /\ ~request.legacy

\* the 24-byte native input_event with the fields of a client record
Canonical(record) ==
    IF "input_event_sec" \in DOMAIN record
    THEN input_event(record.input_event_sec, record.input_event_usec,
                     record.type_, record.code, record.value)
    ELSE record

RecordSize == IF reply.rp.is_compat THEN CompatSize ELSE NormalSize

\* the host file received exactly the records of the client write, one write
\* each, in the client's order
ForwardedAll ==
    /\ Len(hostops) = Len(request.records)
    /\ \A i \in 1..Len(hostops) :
        /\ hostops[i].op = "write"
        /\ hostops[i].buf = Canonical(request.records[i])

NoHostError == \A i \in 1..Len(hostops) : hostops[i].res /= "Err"

\* C12 as stated: under policy none every write of n complete records to a
\* session with a device makes exactly n host writes of the native records,
\* in order, times widened without loss, and replies n times the record size
C12_ForwardsEveryRecord ==
    (policy = "None" /\ WroteEvents) =>
        /\ ForwardedAll
        /\ reply.val = Len(request.records) * RecordSize

\* C12: under policy none a write of n complete records to a session with a
\* device, none of whose host writes returns an error, makes exactly n host
\* writes of the native records, in the client's order, with the client's
\* type, code and value and the times widened without loss, and replies n
\* times the client record size
C12_ForwardsEveryRecordUnlessError ==
    (policy = "None" /\ WroteEvents /\ NoHostError) =>
        /\ ForwardedAll
        /\ reply.val = Len(request.records) * RecordSize

\* a compat session wrote two records and a partial third; the host got both,
\* one with the largest compat time
C12_Witness ==
    /\ policy = "None"
    /\ WroteEvents
    /\ NoHostError
    /\ reply.rp.is_compat
    /\ Len(request.records) = MaxRecords
    /\ request.size > reply.val
    /\ reply.val = MaxRecords * CompatSize
    /\ ForwardedAll
    /\ \E i \in 1..Len(hostops) : hostops[i].buf.tv_sec = MaxCompatTime

\* the native records the host file was given, in order
HostBufs == [i \in 1..Len(hostops) |-> hostops[i].buf]

\* the records of the client write as native records
ClientBufs == [i \in 1..Len(request.records) |-> Canonical(request.records[i])]

GamepadKey(code) ==
    \/ code >= BTN_SOUTH /\ code < BTN_THUMBR
    \/ code >= BTN_DPAD_UP /\ code < BTN_GRIPR2

\* C13: under policy strict-gamepad no EV_KEY record with a code outside
\* [BTN_SOUTH, BTN_THUMBR) and [BTN_DPAD_UP, BTN_GRIPR2) and no record of a
\* type other than SYN, ABS, FF or KEY is written to the host file, and the
\* reply counts the dropped records as consumed
C13_StrictGamepadDrops ==
    (policy = "StrictGamepad" /\ WroteEvents) =>
        /\ \A i \in 1..Len(hostops) :
            /\ hostops[i].buf.type_ \in {EV_SYN, EV_ABS, EV_FF, EV_KEY}
            /\ hostops[i].buf.type_ = EV_KEY => GamepadKey(hostops[i].buf.code)
        /\ NoHostError => reply.val = Len(request.records) * RecordSize

\* the events of a sequence that policy sanitized lets through, for a
\* session holding the modifiers of held
SanitizedDrops(held, ev) ==
    LET alt == held \cap {KEY_LEFTALT, KEY_RIGHTALT} /= {}
        ctrl == held \cap {KEY_LEFTCTRL, KEY_RIGHTCTRL} /= {}
    IN  /\ ev.type_ = EV_KEY
        /\ \/ ev.code = KEY_SYSRQ
           \/ ev.code \in KEY_F1..KEY_F10 \cup KEY_F11..KEY_F12 /\ alt
           \/ ev.code \in {KEY_DELETE, KEY_KPDOT} /\ alt /\ ctrl
           \/ ev.code \in {KEY_POWER, KEY_SLEEP, KEY_WAKEUP}

RECURSIVE SanitizedKeeps(_, _)
SanitizedKeeps(held, evs) ==
    IF evs = <<>> THEN <<>>
    ELSE LET now_held == HeldAfterOne(held, Head(evs))
         IN  (IF SanitizedDrops(now_held, Head(evs)) THEN <<>> ELSE <<Head(evs)>>)
             \o SanitizedKeeps(now_held, Tail(evs))

\* C14: under policy sanitized an event is dropped iff it is an EV_KEY event
\* for SysRq, for F1..F12 while an Alt key is held, for Delete or KPDot while
\* an Alt and a Ctrl key are held, or for POWER, SLEEP or WAKEUP, the
\* modifiers being those the session's own events left held; every other
\* event reaches the host file
C14_SanitizedDrops ==
    (policy = "Sanitized" /\ WroteEvents /\ NoHostError) =>
        HostBufs = SanitizedKeeps(HeldBefore(request.fh), ClientBufs)

NotSysRq(ev) == ~(ev.type_ = EV_KEY /\ ev.code = KEY_SYSRQ)

\* C15: under policy mute-sysrq an event is dropped iff it is an EV_KEY event
\* with code SysRq; every other event reaches the host file
C15_MuteSysRqDrops ==
    (policy = "MuteSysRq" /\ WroteEvents /\ NoHostError) =>
        HostBufs = SelectSeq(ClientBufs, NotSysRq)

\* the last callback was a vuinput_write: it replied, or it ended the daemon
LastWasWrite ==
    /\ request.op = "write"
    /\ daemon = "aborted" \/ reply.op = "write"

\* C16: a write is handled as legacy setup iff the session has no device
\* identity and the size is that of uinput_user_dev; a write of any other
\* size to a session without identity is handled as event records and is
\* answered with a reply
C16_LegacySetupIffSize ==
    LastWasWrite =>
        LET no_identity == VUINPUT_STATE[request.fh].input_device = None IN
        /\ request.legacy <=> (no_identity /\ request.size = LegacySize)
        /\ (no_identity /\ request.size /= LegacySize) =>
              /\ daemon /= "aborted"
              /\ reply.op = "write"
              /\ reply.fh = request.fh

\* C17: within one client write, the first host write that fails or writes
\* fewer than the 24 bytes of its record is the last host write of that
\* client write, and the reply is EIO
C17_EioOnFailedOrShortWrite ==
    WroteEvents =>
        \A i \in 1..Len(hostops) :
            hostops[i].res /= "Full" =>
                /\ i = Len(hostops)
                /\ reply.val = -EIO

\* the ioctls that read or write a buffer of the client
NeedsBuffer ==
    {"UI_DEV_SETUP", "UI_ABS_SETUP", "UI_SET_PHYS", "UI_GET_SYSNAME",
     "UI_GET_VERSION"} \cup FfCmds

\* the state of the sessions and of their host files
SessionState == <<VUINPUT_STATE, uinput, input_no, events, daemon>>

\* C18: an ioctl that needs a buffer and arrives with none mapped is answered
\* with one retry request, without a host ioctl and without a change to the
\* session; the retried call, arriving with the buffers asked for, is
\* executed after exactly that one retry; an ioctl that needs no buffer is
\* executed without a retry
C18_ExactlyOneRetry ==
    [][(request' /= request /\ request'.op = "ioctl") =>
          IF request'.pending
          THEN /\ request'.cmd \in NeedsBuffer
               /\ request'.in_bufsz = 0 /\ request'.out_bufsz = 0
               /\ request'.retries = 1
               /\ reply'.op = "retry"
               /\ hostops' = <<>>
               /\ UNCHANGED SessionState
          ELSE /\ request'.retries = (IF request'.cmd \in NeedsBuffer THEN 1 ELSE 0)
               /\ request'.cmd \in NeedsBuffer =>
                    /\ request.pending
                    /\ request'.in_bufsz = request.want.in_len
                    /\ request'.out_bufsz = request.want.out_len
               /\ daemon' = "aborted" \/ reply'.op /= "retry"]_vars

\* UI_DEV_SETUP was retried once and then executed with its buffer mapped
C18_Witness ==
    /\ request.op = "ioctl"
    /\ request.cmd = "UI_DEV_SETUP"
    /\ ~request.pending
    /\ request.retries = 1
    /\ request.in_bufsz = SizeOf("uinput_setup")
    /\ reply.op = "setup"
    /\ Len(hostops) = 1
    /\ uinput[request.fh].state = "setup"

\* the last callback was a vuinput_ioctl that executed cmd and replied
ExecutedIoctl(cmd) ==
    /\ daemon /= "aborted"
    /\ request.op = "ioctl"
    /\ request.cmd = cmd
    /\ ~request.pending

\* C19: a UI_ABS_SETUP ioctl arriving with its input buffer mapped issues
\* exactly one UI_ABS_SETUP ioctl with the client's uinput_abs_setup on the
\* session's host file before OK is replied
C19_AbsSetupForwarded ==
    (ExecutedIoctl("UI_ABS_SETUP") /\ request.in_bufsz /= 0) =>
        /\ hostops = <<HostIoctl("UI_ABS_SETUP", request.arg)>>
        /\ reply.op = "ioctl"
        /\ reply.val = 0

\* C20: vuinput_open mints a file handle; when the host /dev/uinput cannot
\* be opened the reply is ENOENT and the session registry is unchanged, with
\* no session for the minted handle; when it is opened, exactly one session,
\* keyed by the new handle and without a device identity, is inserted
C20_OpenInsertsOrENOENT ==
    [][VUINPUT_COUNTER' /= VUINPUT_COUNTER =>
          LET fh == VUINPUT_COUNTER IN
          /\ reply'.op = "open"
          /\ reply'.fh = fh
          /\ fh \notin DOMAIN VUINPUT_STATE
          /\ IF fh \in DOMAIN uinput'
             THEN /\ reply'.val = 0
                  /\ DOMAIN VUINPUT_STATE' = DOMAIN VUINPUT_STATE \cup {fh}
                  /\ \A g \in DOMAIN VUINPUT_STATE :
                        VUINPUT_STATE'[g] = VUINPUT_STATE[g]
                  /\ VUINPUT_STATE'[fh].input_device = None
                  /\ VUINPUT_STATE'[fh].requesting_process = reply'.rp
             ELSE /\ reply'.val = -ENOENT
                  /\ UNCHANGED VUINPUT_STATE]_vars

\* an open was answered with ENOENT and left no session for its handle
C20_Witness ==
    /\ reply.op = "open"
    /\ reply.val = -ENOENT
    /\ VUINPUT_COUNTER = reply.fh + 1
    /\ reply.fh \notin DOMAIN VUINPUT_STATE
    /\ reply.fh \notin DOMAIN uinput

-----------------------------------------------------------------------------
(* File handles: vuinput_open and vuinput_release alone, for more opens    *)
(* than the other specifications allow.                                    *)

\* calls of vuinput_open
MaxHandles == 4

InitH ==
    /\ InitDaemon
    /\ policy = DefaultPolicy
    /\ placement = "InContainer"

OpenMany == OpenUpTo(HostClients, MaxHandles)

NextH ==
    \/ OpenMany
    \/ ForwardRelease

SpecH == InitH /\ [][NextH]_vars

Minted == {minted[i] : i \in 1..Len(minted)}

\* C21: every file handle minted by open, successful or not, is greater than
\* every handle minted before it; the sessions in the registry are keyed by
\* minted handles, the next handle is not a key, and the insert of open has
\* never found its key present
C21_HandlesStrictlyIncrease ==
    /\ \A i, j \in 1..Len(minted) : i < j => minted[i] < minted[j]
    /\ DOMAIN VUINPUT_STATE \subseteq Minted
    /\ \A fh \in Minted : fh < VUINPUT_COUNTER
    /\ VUINPUT_COUNTER \notin DOMAIN VUINPUT_STATE
    /\ daemon /= "aborted"

\* four opens: one failed, one session was released, one is still open
C21_Witness ==
    /\ Len(minted) = MaxHandles
    /\ \E fh \in Minted : fh \notin DOMAIN uinput
    /\ \E fh \in Minted : fh \in DOMAIN uinput /\ fh \notin DOMAIN VUINPUT_STATE
    /\ \E fh \in Minted : fh \in DOMAIN VUINPUT_STATE /\ fh = minted[MaxHandles]

-----------------------------------------------------------------------------
(* write_udev_data: the transform of a udev data file.  Strings are          *)
(* sequences of characters.                                                  *)

\* lines in a file, and pieces a line is put together from
MaxLines == 2
MaxChunks == 2

LF == "\n"
CR == "\r"

ID_SEAT == <<"I", "D", "_", "S", "E", "A", "T", "=">>
seat_ == <<"s", "e", "a", "t", "_">>
ID_VUINPUT_KEYBOARD ==
    <<"I", "D", "_", "V", "U", "I", "N", "P", "U", "T", "_", "K", "E", "Y", "B",
      "O", "A", "R", "D", "=", "1">>
ID_INPUT_KEYBOARD ==
    <<"I", "D", "_", "I", "N", "P", "U", "T", "_", "K", "E", "Y", "B", "O", "A",
      "R", "D", "=", "1">>
ID_VUINPUT_MOUSE ==
    <<"I", "D", "_", "V", "U", "I", "N", "P", "U", "T", "_", "M", "O", "U", "S",
      "E", "=", "1">>
ID_INPUT_MOUSE ==
    <<"I", "D", "_", "I", "N", "P", "U", "T", "_", "M", "O", "U", "S", "E", "=",
      "1">>

\* s has p at position i
StartsWith(s, p, i) ==
    /\ i + Len(p) - 1 <= Len(s)
    /\ \A k \in 1..Len(p) : s[i + k - 1] = p[k]

\* str::contains
contains(s, p) == \E i \in 1..Len(s) : StartsWith(s, p, i)

\* a replacement that leaves the string as it is
replace_Nothing(s, from, to) == s

\* str::replace: every match, from the left, matches not overlapping
RECURSIVE replace(_, _, _)
replace(s, from, to) ==
    IF s = <<>> THEN <<>>
    ELSE IF StartsWith(s, from, 1)
         THEN to \o replace(SubSeq(s, Len(from) + 1, Len(s)), from, to)
         ELSE <<Head(s)>> \o replace(Tail(s), from, to)

\* the position of the first line feed of s, 0 if there is none
FirstLF(s) ==
    IF \E i \in 1..Len(s) : s[i] = LF
    THEN CHOOSE i \in 1..Len(s) : s[i] = LF /\ \A j \in 1..(i - 1) : s[j] /= LF
    ELSE 0

\* a line without its ending: "\n", or "\r\n"
StripCR(line) ==
    IF line /= <<>> /\ line[Len(line)] = CR
    THEN SubSeq(line, 1, Len(line) - 1) ELSE line

\* str::lines: the lines of s without their endings; a last line with no
\* line feed is returned as it is
RECURSIVE lines(_)
lines(s) ==
    IF s = <<>> THEN <<>>
    ELSE LET i == FirstLF(s) IN
         IF i = 0 THEN <<s>>
         ELSE <<StripCR(SubSeq(s, 1, i - 1))>> \o lines(SubSeq(s, i + 1, Len(s)))

\* write_udev_data (runtime_data.rs:47-70): the string written to the file
RECURSIVE cleaned(_)
cleaned(ls) ==
    IF ls = <<>> THEN <<>>
    ELSE LET line == Head(ls) IN
         IF contains(line, ID_SEAT) \/ contains(line, seat_)
         THEN cleaned(Tail(ls))
         ELSE replace(replace(line, ID_VUINPUT_KEYBOARD, ID_INPUT_KEYBOARD),
                      ID_VUINPUT_MOUSE, ID_INPUT_MOUSE)
              \o <<LF>> \o cleaned(Tail(ls))

write_udev_data(content) == cleaned(lines(content))

\* Pieces of lines of a udev data file: the patterns, parts of them, and
\* other characters.
Chunks ==
    {<<"x">>, ID_SEAT, seat_, ID_VUINPUT_KEYBOARD, ID_VUINPUT_MOUSE,
     <<"I", "D", "_", "V", "U">>,
     <<"I", "N", "P", "U", "T", "_", "M", "O", "U", "S", "E", "=", "1">>,
     <<CR>>}

RECURSIVE Concat(_)
Concat(ss) == IF ss = <<>> THEN <<>> ELSE Head(ss) \o Concat(Tail(ss))

Bodies == {Concat(cs) : cs \in UNION {[1..n -> Chunks] : n \in 0..MaxChunks}}

\* a line with its ending; the last line of a file may have none
EndedLines == {b \o e : b \in Bodies, e \in {<<LF>>, <<CR, LF>>}}
LastLines ==
    EndedLines \cup {b \in Bodies : b /= <<>> /\ b[Len(b)] /= CR}

RECURSIVE ContentsOf(_)
ContentsOf(n) ==
    IF n = 1 THEN LastLines
    ELSE {first \o rest : first \in EndedLines, rest \in ContentsOf(n - 1)}

UdevContents == UNION {ContentsOf(n) : n \in 1..MaxLines}

uRest == <<dvars, daemon, placement, VUINPUT_STATE, handles, bridge, uinput,
           input_no, kq, udevvars, storevars, now, sync_state, locals, contvars,
           reply, policy, DEDUP_LAST_ERROR, request, hostops, store_log,
           ns_gone, rp_run, sync_run>>

\* read_udev_data (runtime_data.rs:80-83)
ReadUdevData ==
    /\ udev_run.stage = "none"
    /\ \E content \in UdevContents :
        udev_run' = UdevRun("read", content, <<>>, <<>>)
    /\ UNCHANGED uRest

\* write_udev_data of what was read
WriteUdevData ==
    /\ udev_run.stage = "read"
    /\ udev_run' = [udev_run EXCEPT !.stage = "written",
                                    !.written = write_udev_data(udev_run.content)]
    /\ UNCHANGED uRest

\* write_udev_data of what was written
WriteUdevDataAgain ==
    /\ udev_run.stage = "written"
    /\ udev_run' = [udev_run EXCEPT !.stage = "rewritten",
                                    !.rewritten = write_udev_data(udev_run.written)]
    /\ UNCHANGED uRest

InitU ==
    /\ InitD
    /\ InitIdle

NextU ==
    \/ ReadUdevData
    \/ WriteUdevData
    \/ WriteUdevDataAgain

SpecU == InitU /\ [][NextU]_vars

\* What the transform is to do, said without the string functions above.
Occurs(l, p, i) ==
    /\ i + Len(p) - 1 <= Len(l)
    /\ SubSeq(l, i, i + Len(p) - 1) = p

HasAny(l, p) == \E i \in 1..Len(l) : Occurs(l, p, i)

RECURSIVE Substituted(_, _, _)
Substituted(l, p, q) ==
    IF ~HasAny(l, p) THEN l
    ELSE LET i == CHOOSE i \in 1..Len(l) :
                    Occurs(l, p, i) /\ \A j \in 1..(i - 1) : ~Occurs(l, p, j)
         IN  SubSeq(l, 1, i - 1) \o q
             \o Substituted(SubSeq(l, i + Len(p), Len(l)), p, q)

NoSeat(l) == ~HasAny(l, ID_SEAT) /\ ~HasAny(l, seat_)

Renamed(l) ==
    Substituted(Substituted(l, ID_VUINPUT_KEYBOARD, ID_INPUT_KEYBOARD),
                ID_VUINPUT_MOUSE, ID_INPUT_MOUSE)

\* the input lines without a seat, renamed, each ended by a line feed
Expected(content) ==
    LET kept == SelectSeq(lines(content), NoSeat)
    IN  Concat([i \in 1..Len(kept) |-> Renamed(kept[i]) \o <<LF>>])

\* no line keeps a carriage return at its end once its ending is taken off
NoStrayCR(content) ==
    \A i \in 1..Len(lines(content)) :
        LET l == lines(content)[i] IN l = <<>> \/ l[Len(l)] /= CR

\* C22 as stated: the file written holds, in order and each ended by a line
\* feed, exactly the input lines without ID_SEAT= and seat_, with the two
\* ID_VUINPUT_ properties renamed, and the transform of that file is that
\* file again
C22_SanitizerIdempotent ==
    udev_run.stage = "rewritten" =>
        /\ udev_run.written = Expected(udev_run.content)
        /\ udev_run.rewritten = udev_run.written

\* C22: the file written holds, in order and each ended by a line feed,
\* exactly the input lines without ID_SEAT= and seat_, with the two
\* ID_VUINPUT_ properties renamed; when no input line keeps a carriage
\* return at its end, the transform of that file is that file again
C22_SanitizerIdempotentWithoutCR ==
    udev_run.stage = "rewritten" =>
        /\ udev_run.written = Expected(udev_run.content)
        /\ NoStrayCR(udev_run.content) =>
              udev_run.rewritten = udev_run.written

\* a file with a seat line that was dropped and a mouse property that was
\* renamed, with a \r\n ending, written twice with the same result
C22_Witness ==
    /\ udev_run.stage = "rewritten"
    /\ HasAny(udev_run.content, seat_)
    /\ HasAny(udev_run.content, ID_VUINPUT_MOUSE)
    /\ HasAny(udev_run.content, <<CR, LF>>)
    /\ NoStrayCR(udev_run.content)
    /\ HasAny(udev_run.written, ID_INPUT_MOUSE)
    /\ ~HasAny(udev_run.written, seat_)
    /\ ~HasAny(udev_run.written, <<CR>>)
    /\ udev_run.rewritten = udev_run.written

-----------------------------------------------------------------------------
(* Placement none *)

\* the children started by the step
StartedChildren == children' \ children

\* the task of target t moves to position pc in the step
MovesTo(t, op, pc) == cur[t].op = op /\ curpc[t] /= pc /\ curpc'[t] = pc

\* the emit job of target t leaves its loop with both pieces of data, the
\* remove job of target t has taken an entry that is not tombstoned
EmitProceeds(t) ==
    /\ cur[t].op = "emit" /\ curpc[t] = "timer"
    /\ curpc'[t] \in {"await1", "await2"}

RemoveProceeds(t) ==
    /\ cur[t].op = "remove" /\ curpc[t] = "run"
    /\ curpc'[t] \in {"await12", "await3"}

NetlinkChild(t) ==
    Child(cur[t].id, "EmitNetlinkMessage", cur[t].dev, locals'[t].netlink_data)

NoArtifacts == \A p \in Places : nodes[p] = {} /\ udevdata[p] = {}

-----------------------------------------------------------------------------
(* Idle target loops *)

ContainerTargets == {t \in QueueTargets : t.kind = "Container"}

\* no job for the target is waiting in a channel or running
NoPendingJob(t) ==
    /\ targetQ[t] = <<>>
    /\ cur[t] = NoJob
    /\ \A i \in 1..Len(mainQ) : mainQ[i].target /= t

\* C24: while the dispatcher's channel is open, a per-container queue in the
\* target map that has no pending job is eventually removed from the map
\* (or gets a job again)
C24_IdleQueueRemoved ==
    \A t \in ContainerTargets :
        (tx /\ t \in targets /\ NoPendingJob(t))
            ~> (~tx \/ t \notin targets \/ ~NoPendingJob(t))

-----------------------------------------------------------------------------
(* The operations of the event store, one at a time *)

\* every entry but that of syspath p is as it was
OthersUnchanged(p) ==
    /\ DOMAIN entries' \ {p} = DOMAIN entries \ {p}
    /\ \A q \in DOMAIN entries \ {p} : entries'[q] = entries[q]

\* the entry of an event's syspath after on_event, field by field
Recorded(ev) ==
    LET p == ev.syspath
        was == p \in DOMAIN entries
        e == entries'[p] IN
    /\ p \in DOMAIN entries'
    /\ e.syspath = p
    /\ e.seqnum = ev.seqnum
    /\ e.last_update = now
    /\ ~e.tombstone
    /\ ev.kind = "Add" =>
          /\ e.add_data = Some(ev.payload)
          /\ ~e.add_processed
          /\ e.remove_data = None
    /\ ev.kind = "Remove" =>
          /\ e.remove_data = Some(ev.payload)
          /\ e.add_data = IF was THEN entries[p].add_data ELSE None
          /\ e.add_processed = IF was THEN entries[p].add_processed ELSE FALSE

\* C25: on_event(ev) changes only the entry of ev.syspath, which it creates
\* if absent: seqnum becomes ev.seqnum, last_update the present time, the
\* tombstone is cleared; an Add event sets add_data to the payload, clears
\* add_processed and remove_data; a Remove event sets remove_data to the
\* payload and leaves add_data and add_processed as they were
C25_OnEventUpdatesOneEntry ==
    [][\A ev \in StoreEvents :
          entries' = on_event(entries, ev, now) =>
              OthersUnchanged(ev.syspath) /\ Recorded(ev)]_vars

\* an entry whose add was taken before its Remove event was stored: the
\* event kept add_data and add_processed, next to an entry of another
\* syspath with a later sequence number
C25_Witness ==
    \E p \in DOMAIN entries, q \in DOMAIN entries :
        /\ p /= q
        /\ entries[p].add_processed
        /\ entries[p].add_data /= None
        /\ entries[p].remove_data /= None
        /\ ~entries[p].tombstone
        /\ p \in store_log.ever
        /\ entries[q].seqnum = MaxSeq
        /\ entries[q].add_data /= None

\* the step is a take of syspath p that returns result
Takes(p, result) ==
    /\ entries' = take_store(entries, p)
    /\ store_log'.last.syspath = p
    /\ store_log'.last.result = result
    /\ result = take_result(entries, p)

\* C26: take(p) returns None and changes nothing when p has no entry;
\* otherwise it returns the entry as it was before the call, and afterwards
\* the store is unchanged if the entry was tombstoned, else the entry has
\* add_processed true and tombstone true exactly when it has remove data;
\* no other entry and no other field changes
C26_TakeReturnsEntryAndMarks ==
    [][\A p \in StorePaths :
        \A result \in {store_log'.last.result} :
          Takes(p, result) =>
            IF p \notin DOMAIN entries
            THEN result = None /\ entries' = entries
            ELSE /\ result = Some(entries[p])
                 /\ OthersUnchanged(p)
                 /\ p \in DOMAIN entries'
                 /\ IF entries[p].tombstone
                    THEN entries' = entries
                    ELSE entries'[p] =
                           [entries[p] EXCEPT
                              !.add_processed = TRUE,
                              !.tombstone = (entries[p].remove_data /= None)]
      ]_vars

\* the last take returned an entry that was neither processed nor
\* tombstoned and had remove data; the entry is now processed and tombstoned
C26_Witness ==
    /\ store_log.last.result /= None
    /\ LET r == Unwrap(store_log.last.result)
           p == store_log.last.syspath IN
       /\ ~r.tombstone /\ ~r.add_processed /\ r.remove_data /= None
       /\ p \in DOMAIN entries
       /\ entries[p].tombstone /\ entries[p].add_processed
       /\ entries[p].seqnum = r.seqnum
       /\ \E q \in DOMAIN entries : q /= p

\* C27: after cleanup() the store holds exactly the entries that were there
\* before, were not tombstoned and were updated less than the TTL ago,
\* unchanged; every tombstoned entry and every entry at least as old as
\* the TTL is gone
C27_CleanupKeepsLiveYoungEntries ==
    [][entries' = cleanup(entries, now) =>
          /\ DOMAIN entries' \subseteq DOMAIN entries
          /\ \A p \in DOMAIN entries :
                IF ~entries[p].tombstone /\ now - entries[p].last_update < Ttl
                THEN p \in DOMAIN entries' /\ entries'[p] = entries[p]
                ELSE p \notin DOMAIN entries'
          /\ \A p \in DOMAIN entries :
                entries[p].tombstone \/ now - entries[p].last_update >= Ttl
                    => p \notin DOMAIN entries'
      ]_vars

\* the last operation was a cleanup that dropped an entry without tombstone
\* that was as old as the TTL and kept another, younger one
C27_Witness ==
    /\ store_log.swept /= {}
    /\ now = Ttl
    /\ \E p \in DOMAIN entries :
        /\ ~entries[p].tombstone
        /\ now - entries[p].last_update < Ttl

-----------------------------------------------------------------------------
(* The emit job against any event store: the job is dispatched for a       *)
(* device, while Add and Remove events for the device's syspath reach the  *)
(* store and udevd writes the device's runtime data at any time.           *)

\* the device of the job and the process that created it
JobDev == VuInputDevice(INPUT_MAJOR, EventMinor(1), 1, 1)

\* the events the store is given about the device
JobEvents ==
    {UdevEvent(JobDev.syspath, 1, kind, [k \in {"ACTION"} |-> kind]) :
        kind \in {"Add", "Remove"}}

\* vuinput_ioctl, UI_DEV_CREATE: the dispatch of the emit job
\* (vuinput_ioctl.rs:200-213)
DispatchEmit ==
    /\ daemon = "running"
    /\ Len(dispatched) <= MaxJobs
    /\ DispatchNew(EmitUdevEventJob(RpA1, JobDev))
    /\ UNCHANGED <<engineRest, cvars, events, daemon, placement, VUINPUT_STATE,
                   handles, bridge, uinput, input_no, kq, udevvars, storevars,
                   now, locals, contvars, reply>>

\* EVENT_STORE.lock().unwrap().on_event(event) for an event of the device
JobStoreEvent ==
    /\ \E event \in JobEvents : entries' = on_event(entries, event, now)
    /\ UNCHANGED <<esRest, now, store_log>>

\* udevd writes the device's file in the host's /run/udev/data
JobHostUdevData ==
    /\ JobDev.minor \notin hostudev
    /\ hostudev' = hostudev \cup {JobDev.minor}
    /\ UNCHANGED <<dvars, cvars, daemon, placement, VUINPUT_STATE, handles,
                   bridge, uinput, input_no, kq, sock, nother, storevars, now,
                   sync_state, locals, contvars, reply>>

EmitStep ==
    \E t \in SessionTargets :
        \/ EmitRun(t)
        \/ EmitAfterTimer(t)
        \/ EmitResume1(t)
        \/ EmitResume2(t)

NextJ ==
    \/ DispatchEmit
    \/ EngineStep
    \/ EmitStep
    \/ ChildExit
    \/ JobStoreEvent
    \/ JobHostUdevData

SpecJ == Init /\ [][NextJ]_vars

\* the locals of the emit job of target t as its next poll finds them
EmitLocals(t) == IF curpc[t] = "run" THEN Locals(None, None, 1) ELSE locals[t]

\* the step is a poll of the emit job of target t in or just behind its loop
EmitPolled(t) ==
    /\ cur[t].op = "emit"
    /\ curpc[t] \in {"run", "timer"}
    /\ <<cur[t], curpc[t], locals[t]>>' /= <<cur[t], curpc[t], locals[t]>>

EmitEnds(t) == cur'[t] = NoJob /\ StartedChildren = {}

\* C28: the emit job polls at most MaxAttempts times (50 in the code); it
\* starts an action only with both the add payload and the runtime data
\* obtained within those attempts; when one of them is missing after the
\* last attempt, or the store returns a tombstoned entry or one with remove
\* data, the job ends and starts no action; with the add payload obtained
\* it does not take from the store again: the store stays as it is and an
\* entry removed meanwhile does not end the job
C28_EmitPollsAtMostMaxAttempts ==
    [][\A t \in SessionTargets :
        EmitPolled(t) =>
            LET l == EmitLocals(t)
                taken == IF JobDev.syspath \in DOMAIN entries
                         THEN Some(entries[JobDev.syspath]) ELSE None
                missing == l.netlink_data = None \/ l.runtime_data = None
                last == l.number_of_attempt > MaxAttempts IN
            /\ l.number_of_attempt <= MaxAttempts + 1
            /\ last => curpc'[t] /= "timer"
            /\ StartedChildren /= {} => ~missing
            /\ last /\ missing => EmitEnds(t)
            /\ ~last /\ l.netlink_data = None /\ taken /= None
                 /\ (Unwrap(taken).tombstone \/ Unwrap(taken).remove_data /= None)
                 => EmitEnds(t)
            /\ l.netlink_data /= None =>
                 /\ entries' = entries
                 /\ ~last /\ missing => curpc'[t] = "timer"
      ]_vars

\* the job got the runtime data at its last attempt, after the add payload,
\* and has started its actions, although the entry has remove data by now
C28_Witness ==
    \E t \in SessionTargets :
        /\ cur[t].op = "emit"
        /\ curpc[t] \in {"await1", "await2"}
        /\ children /= {}
        /\ locals[t].number_of_attempt = MaxAttempts + 1
        /\ JobDev.syspath \in DOMAIN entries
        /\ entries[JobDev.syspath].remove_data /= None

-----------------------------------------------------------------------------
(* A remove job for a device the store does not know *)

\* the step is the first poll of the remove job of target t
RemovePolled(t) ==
    /\ cur[t].op \in {"remove", "removefc"}
    /\ curpc[t] = "run"
    /\ <<cur[t], curpc[t]>>' /= <<cur[t], curpc[t]>>

\* C30: a remove job that finds no entry for its device's syspath in the
\* event store starts no child, changes no device node and no udev data
\* file, emits no netlink message, leaves the store as it is and ends with
\* the state Finished, which is what the destroy or release waits for
C30_RemoveWithoutEntryFinishes ==
    [][\A t \in SessionTargets :
        RemovePolled(t) /\ cur[t].dev.syspath \notin DOMAIN entries =>
            /\ StartedChildren = {}
            /\ children' = children
            /\ nodes' = nodes
            /\ udevdata' = udevdata
            /\ netlink' = netlink
            /\ entries' = entries
            /\ cur'[t] = NoJob
            /\ sync_state'[cur[t].id] = Finished
            /\ bridge.pc = "await" /\ bridge.job = cur[t].id
      ]_vars

\* a destroy was answered after its remove job ended Finished without a
\* remove message: the store had no entry for the device
C30_Witness ==
    /\ reply.op = "destroy"
    /\ reply.job \in JobIds
    /\ dispatched[reply.job].op = "remove"
    /\ Done(reply.job)
    /\ sync_state[reply.job] = Finished
    /\ ~RemoveEmitted(dispatched[reply.job].dev)
    /\ children = {}

-----------------------------------------------------------------------------
(* The remove job of release against a container that may be gone: the job *)
(* is dispatched for a device while events for the device's syspath reach  *)
(* the store and the root process of the container exits at any time.      *)

\* vuinput_release: the dispatch of the remove job (vuinput_release.rs:35-48)
DispatchRemoveFc ==
    /\ daemon = "running"
    /\ Len(dispatched) <= MaxJobs
    /\ DispatchNew(RemoveFromContainerJob(RpA1, JobDev))
    /\ UNCHANGED <<engineRest, cvars, events, daemon, placement, VUINPUT_STATE,
                   handles, bridge, uinput, input_no, kq, udevvars, storevars,
                   now, locals, contvars, reply>>

\* the process nsroot names exits: its /proc/<pid>/ns is no more
NsrootExits ==
    /\ RpA1.nsroot \notin ns_gone
    /\ ns_gone' = ns_gone \cup {RpA1.nsroot}
    /\ UNCHANGED <<dvars, daemon, placement, VUINPUT_STATE, handles, bridge,
                   uinput, input_no, kq, udevvars, storevars, now, sync_state,
                   locals, contvars, reply, nother, policy, DEDUP_LAST_ERROR,
                   request, hostops, store_log, udev_run, rp_run,
                   sync_run>>

RemoveFcStep ==
    \E t \in SessionTargets :
        \/ RemoveFcRun(t)
        \/ RemoveFcResume(t)

NextN ==
    \/ DispatchRemoveFc
    \/ EngineStep
    \/ RemoveFcStep
    \/ ChildExit
    \/ JobStoreEvent
    \/ NsrootExits

SpecN == Init /\ [][NextN]_vars

\* The dispatcher thread is scheduled, and every child process exits.
FairSpecN ==
    /\ SpecN
    /\ WF_vars(EngineStep)
    /\ WF_vars(RemoveFcStep)
    /\ WF_vars(ChildExit)

\* the child finds the directory nsroot of its target gone
NsrootGone(c) == ChildRp(c).nsroot \in ns_gone

\* the step is the exit of child c
Exits(c) == c \in children /\ c \notin children'

\* C31: a forked child that finds the nsroot directory of its target gone
\* exits with status 0 without calling setns and without running the action,
\* so nothing changes in the container; the parent's wait on it is then over,
\* and the remove job that started it reaches Finished with the dispatcher
\* thread still running.
C31_NamespaceGoneChildExitsSilently ==
    /\ [][\A c \in children :
            Exits(c) /\ NsrootGone(c) =>
                /\ Entrant(c).status = 0
                /\ ~Entrant(c).setns
                /\ ~Entrant(c).func
                /\ UNCHANGED <<nodes, udevdata, netlink>>
                /\ \A d \in children' : d.job /= c.job]_vars
    /\ \A id \in 1..(MaxJobs + 1) :
            (\E c \in children : c.job = id /\ NsrootGone(c)) ~>
                (/\ id \in DOMAIN sync_state
                 /\ sync_state[id] = Finished
                 /\ thread.pc /= "panicked")

\* the only remove job has taken an entry with add data, its child has left
\* nothing in a container whose nsroot is gone, and the job is Finished
C31_Witness ==
    /\ RpA1.nsroot \in ns_gone
    /\ Len(dispatched) = 2
    /\ dispatched[2].op = "removefc"
    /\ sync_state[2] = Finished
    /\ children = {}
    /\ netlink = <<>>
    /\ JobDev.syspath \in DOMAIN entries
    /\ entries[JobDev.syspath].add_processed
    /\ entries[JobDev.syspath].add_data /= None
    /\ entries[JobDev.syspath].remove_data = None

-----------------------------------------------------------------------------
(* get_requesting_process (requesting_process.rs:49-242) against any /proc. *)
(* A /proc is what the call's reads return: per pid the parent its status   *)
(* file names, whether the status file and the ns directory can be read,   *)
(* and the mnt and net inodes of the ns links; for the caller, what its    *)
(* exe file starts with.  Pid 0, the parent of pid 1, has no entry.         *)

MaxPid == 3
Pids == 1..MaxPid

\* the mnt and net inode of a process
NsPairs == {<<1, 1>>, <<1, 2>>, <<2, 2>>}

\* nothing readable at /proc/<pid>/exe, no ELF file or an unknown EI_CLASS,
\* ELFCLASS32, ELFCLASS64
ExeFiles == {"unreadable", "other", "elf32", "elf64"}

\* a process has a smaller pid than its children: the parents form a tree
ProcFs ==
    {proc \in [ppid : [Pids -> 0..(MaxPid - 1)], ns : [Pids -> NsPairs],
               ns_ok : [Pids -> BOOLEAN], status_ok : [Pids -> BOOLEAN],
               exe : ExeFiles] :
        \A p \in Pids : proc.ppid[p] < p}

\* Pid::path() with "/ns" appended
NsPath(pid) == <<"proc", pid, "ns">>

\* is_compat_process (requesting_process.rs:49-78)
is_compat_process(proc, pid) ==
    CASE proc.exe = "elf32" -> Some(TRUE)
      [] proc.exe = "elf64" -> Some(FALSE)
      [] OTHER -> None

\* fs::read_dir("/proc/<pid>/ns") and the read_link of its entries succeed
\* (requesting_process.rs:142-144)
ns_readable(proc, pid) == pid \in Pids /\ proc.ns_ok[pid]

\* get_namespace (requesting_process.rs:122-165) where it does not panic
get_namespace(proc, pid) ==
    IF pid \in Pids THEN Namespaces(proc.ns[pid][1], proc.ns[pid][2], 1)
    ELSE Namespaces(0, 0, 0)

\* get_ppid (requesting_process.rs:167-182)
get_ppid(proc, pid) ==
    IF pid \in Pids /\ proc.status_ok[pid] THEN Some(proc.ppid[pid]) ELSE None

\* the loop of get_requesting_process (requesting_process.rs:211-226): the
\* pid it ends with, or None when get_namespace panics
RECURSIVE walk(_, _, _)
walk(proc, nsinodes, ppid) ==
    LET candidate_ppid == get_ppid(proc, ppid) IN
    IF candidate_ppid = None THEN Some(ppid)
    ELSE IF ~ns_readable(proc, Unwrap(candidate_ppid)) THEN None
    ELSE IF equal_mnt_and_net(nsinodes, get_namespace(proc, Unwrap(candidate_ppid)))
         THEN walk(proc, nsinodes, Unwrap(candidate_ppid))
         ELSE Some(ppid)

\* get_requesting_process (requesting_process.rs:186-242): Some of the
\* RequestingProcess returned, or None when the call panics
get_requesting_process(proc, pid) ==
    LET is_compat == IF is_compat_process(proc, pid) = Some(TRUE) THEN TRUE ELSE FALSE
        nsinodes == get_namespace(proc, pid)
        ppid == walk(proc, nsinodes, pid)
    IN  IF ~ns_readable(proc, pid) \/ ppid = None THEN None
        ELSE Some(RequestingProcess(NsPath(pid), NsPath(Unwrap(ppid)), nsinodes,
                                    is_compat))

pRest == <<dvars, placement, VUINPUT_STATE, handles, bridge, uinput,
           input_no, kq, udevvars, storevars, now, sync_state, locals, contvars,
           reply, policy, DEDUP_LAST_ERROR, request, hostops, store_log,
           udev_run, ns_gone, sync_run>>

\* a client with some pid opens the device, /proc being in some state
ClientOpens ==
    /\ rp_run.stage = "none"
    /\ \E proc \in ProcFs, pid \in Pids :
        rp_run' = Resolve("open", proc, pid, None)
    /\ UNCHANGED <<pRest, daemon>>

\* vuinput_open: get_requesting_process(Pid::Pid((*ctx).pid))
\* (vuinput_open.rs:42); a panic of the call ends the daemon
ResolveCaller ==
    /\ rp_run.stage = "open"
    /\ LET out == get_requesting_process(rp_run.proc, rp_run.pid) IN
       /\ rp_run' = [rp_run EXCEPT !.stage = "resolved", !.out = out]
       /\ daemon' = IF out = None THEN "aborted" ELSE daemon
    /\ UNCHANGED pRest

InitP ==
    /\ InitD
    /\ InitIdle

NextP ==
    \/ ClientOpens
    \/ ResolveCaller

SpecP == InitP /\ [][NextP]_vars

\* What the walk is to find, said without the loop above.

\* the process n parents above pid, 0 when there is none
RECURSIVE Ancestor(_, _, _)
Ancestor(proc, pid, n) ==
    IF n = 0 \/ pid = 0 THEN pid ELSE Ancestor(proc, proc.ppid[pid], n - 1)

SameMntNet(proc, p, q) == proc.ns[p] = proc.ns[q]

\* r is pid or an ancestor of pid, and r and all processes between them have
\* the mnt and net inodes of pid
ChainTo(proc, pid, r) ==
    \E n \in 0..MaxPid :
        /\ Ancestor(proc, pid, n) = r
        /\ \A k \in 0..n :
            /\ Ancestor(proc, pid, k) \in Pids
            /\ SameMntNet(proc, pid, Ancestor(proc, pid, k))

\* the parent of r does not exist, cannot be read, or is in another mnt or
\* net namespace
IsRoot(proc, pid, r) ==
    \/ ~proc.status_ok[r]
    \/ proc.ppid[r] = 0
    \/ ~proc.ns_ok[proc.ppid[r]]
    \/ ~SameMntNet(proc, pid, proc.ppid[r])

Returned == rp_run.out /= None /\ daemon = "running"

\* whenever the call returns, nsroot is the namespace root of the caller and
\* nspath the caller
RootFound ==
    rp_run.stage = "resolved" /\ Returned =>
        /\ Unwrap(rp_run.out).nspath = NsPath(rp_run.pid)
        /\ \E r \in Pids :
            /\ Unwrap(rp_run.out).nsroot = NsPath(r)
            /\ ChainTo(rp_run.proc, rp_run.pid, r)
            /\ IsRoot(rp_run.proc, rp_run.pid, r)

\* C32: for every caller and every process tree get_requesting_process
\* returns, with nspath naming the caller and nsroot naming the caller or an
\* ancestor reached through parents that all have the caller's mnt and net
\* inodes and whose own parent does not exist, cannot be read or differs in
\* mnt or net.
C32_NsrootIsNamespaceRoot ==
    /\ rp_run.stage = "resolved" => Returned
    /\ RootFound

\* the pids whose ns directory the walk from p reads
RECURSIVE Visited(_, _, _)
Visited(proc, pid, p) ==
    IF ~proc.status_ok[p] THEN {}
    ELSE LET c == proc.ppid[p] IN
         IF c \in Pids /\ proc.ns_ok[c] /\ SameMntNet(proc, pid, c)
         THEN {c} \cup Visited(proc, pid, c)
         ELSE {c}

\* a read the call makes fails: the caller's exe file or ns directory, the
\* ns directory of a parent the walk visits, or the status file of a process
\* the walk asks for its parent
ReadFails(proc, pid) ==
    \/ proc.exe = "unreadable"
    \/ ~proc.ns_ok[pid]
    \/ \E v \in Visited(proc, pid, pid) : v = 0 \/ ~proc.ns_ok[v]
    \/ \E v \in {pid} \cup Visited(proc, pid, pid) :
            v \in Pids /\ ChainTo(proc, pid, v) /\ ~proc.status_ok[v]

\* C33: when a /proc read of the call fails, get_requesting_process still
\* returns a RequestingProcess, and is_compat is false whenever the bitness
\* of the caller could not be determined.
C33_FailedReadsStillResolve ==
    rp_run.stage = "resolved" /\ ReadFails(rp_run.proc, rp_run.pid) =>
        /\ Returned
        /\ is_compat_process(rp_run.proc, rp_run.pid) = None =>
                ~Unwrap(rp_run.out).is_compat

-----------------------------------------------------------------------------
(* Sessions of clients in the daemon's own mount and network namespaces *)

\* the session of file handle fh belongs to a process with the daemon's mnt
\* and net inodes
SharesMntNet(rp) ==
    /\ rp.namespaces.mnt = SELF_NAMESPACES.mnt
    /\ rp.namespaces.net = SELF_NAMESPACES.net

SameNamespaces(fh) ==
    /\ fh \in DOMAIN VUINPUT_STATE
    /\ SharesMntNet(VUINPUT_STATE[fh].requesting_process)

\* the step dispatches no job and leaves the bridge where it is
NoJobDispatched == UNCHANGED <<dispatched, mainQ, sync_state, bridge>>

\* the step is the UI_DEV_CREATE, the UI_DEV_DESTROY or the release of fh
CreatesDevice(fh) == uinput[fh].state = "setup" /\ uinput'[fh].state = "created"

DestroysDevice(fh) ==
    /\ fh \in DOMAIN VUINPUT_STATE'
    /\ uinput[fh].state = "created"
    /\ uinput'[fh].state = "new"

ReleasesSession(fh) == fh \notin DOMAIN VUINPUT_STATE'

\* C34: for a session whose mnt and net inodes equal the daemon's,
\* UI_DEV_CREATE, UI_DEV_DESTROY and release dispatch no job and reply at
\* once; create stores the DeviceIdentity in the session, destroy takes it
\* out, release removes the session with it.
C34_SameNamespaceSessionDispatchesNothing ==
    [][\A fh \in DOMAIN VUINPUT_STATE :
        SameNamespaces(fh) =>
            LET rp == VUINPUT_STATE[fh].requesting_process IN
            /\ CreatesDevice(fh) =>
                /\ NoJobDispatched
                /\ VUINPUT_STATE'[fh].input_device = Some(uinput'[fh].dev)
                /\ reply' = Reply("create", fh, 0, 0, rp)
            /\ DestroysDevice(fh) =>
                /\ NoJobDispatched
                /\ VUINPUT_STATE[fh].input_device = Some(uinput[fh].dev)
                /\ VUINPUT_STATE'[fh].input_device = None
                /\ reply' = Reply("destroy", fh, 0, 0, rp)
            /\ ReleasesSession(fh) =>
                /\ NoJobDispatched
                /\ reply' = Reply("release", fh, 0, 0, rp)]_vars

\* a process that shares only mnt and net with the daemon has created a
\* device and destroyed it, and no job but the udev monitor's was dispatched
C34_Witness ==
    /\ reply.op = "destroy"
    /\ SharesMntNet(reply.rp)
    /\ reply.rp.namespaces /= SELF_NAMESPACES
    /\ input_no = 1
    /\ Len(dispatched) = 1
    /\ reply.fh \in DOMAIN VUINPUT_STATE
    /\ VUINPUT_STATE[reply.fh].input_device = None

-----------------------------------------------------------------------------
(* What the monitor loop hands to the event store *)

\* the kind the store is to be given for a uevent with this action
KindOfAction(action) == IF action = "remove" THEN "Remove" ELSE "Add"

\* the payload the store is to be given: the properties of the uevent
\* without ID_SEAT and with the two ID_VUINPUT_ names replaced
PayloadOf(raw) ==
    [k \in ((DOMAIN raw \ {"ID_SEAT", "ID_VUINPUT_KEYBOARD", "ID_VUINPUT_MOUSE"})
            \cup {"ID_INPUT_KEYBOARD" : x \in {y \in DOMAIN raw : y = "ID_VUINPUT_KEYBOARD"}}
            \cup {"ID_INPUT_MOUSE" : x \in {y \in DOMAIN raw : y = "ID_VUINPUT_MOUSE"}}) |->
        CASE k = "ID_INPUT_KEYBOARD" /\ "ID_VUINPUT_KEYBOARD" \in DOMAIN raw ->
                raw["ID_VUINPUT_KEYBOARD"]
          [] k = "ID_INPUT_MOUSE" /\ "ID_VUINPUT_MOUSE" \in DOMAIN raw ->
                raw["ID_VUINPUT_MOUSE"]
          [] OTHER -> raw[k]]

\* the store after the one event for the uevent raw, or as it was when the
\* DEVPATH of raw is not that of an event node
StoreGiven(raw) ==
    IF raw["DEVPATH"].input > 0 /\ raw["DEVPATH"].event > 0
    THEN on_event(entries,
                  UdevEvent(raw["DEVPATH"].input, raw["SEQNUM"],
                            KindOfAction(raw["ACTION"]), PayloadOf(raw)), now)
    ELSE entries

\* C35: for each uevent the monitor receives whose DEVPATH is that of an
\* event node, the store is given exactly one event for the syspath of the
\* input device, of kind Remove for the action remove and of kind Add for the
\* action add, with the payload renamed and without ID_SEAT; any other uevent
\* leaves the store as it is, but for the sweep that is due.
C35_MonitorStoresEventOfKind ==
    [][sock /= <<>> /\ sock' = Tail(sock) =>
        entries' = IF now > next_cleanup
                   THEN cleanup(StoreGiven(Head(sock)), now)
                   ELSE StoreGiven(Head(sock))]_vars

-----------------------------------------------------------------------------
(* The jobs of one device *)

\* the jobs dispatched for a device, by their ids
DeviceJobs(dev) ==
    {i \in 1..Len(dispatched) : dispatched[i].dev = dev /\ dev /= NoDev}

\* where the job of a device comes in the life of the device
Rank(op) == CASE op = "mknod" -> 1 [] op = "emit" -> 2 [] OTHER -> 3

HasStarted(id) == \E k \in 1..Len(events) : events[k] = <<"start", id>>

\* the jobs of a device are dispatched as mknod, emit, remove, and each
\* starts only after the one before has completed
DeviceJobsInOrder ==
    \A j \in 1..Len(dispatched) : \A i \in DeviceJobs(dispatched[j].dev) :
        i < j =>
            /\ Rank(dispatched[i].op) < Rank(dispatched[j].op)
            /\ \A k \in 1..Len(events) :
                    events[k] = <<"start", j>> => DoneBefore(i, k)

\* a child of an emit job: it writes the udev data file or sends the add
\* message in the container
EmitChild(c) == dispatched[c.job].op = "emit"

\* C36: the mknod job, the emit job and the remove job of one device run in
\* that order and never overlap, and once the remove job of a device has
\* started no child of the device's emit job is left to write udev data or
\* to send the add message in the container.
C36_DeviceJobsRunInOrder ==
    /\ []DeviceJobsInOrder
    /\ [][\A c \in children :
            Exits(c) /\ EmitChild(c) =>
                \A j \in DeviceJobs(c.dev) :
                    dispatched[j].op \in {"remove", "removefc"} => ~HasStarted(j)]_vars
    /\ [](\A j \in 1..Len(dispatched) :
            dispatched[j].op \in {"remove", "removefc"} /\ HasStarted(j) =>
                \A c \in children : ~(EmitChild(c) /\ c.dev = dispatched[j].dev))

\* UI_DEV_DESTROY arrived while the emit job of the device was still
\* polling: the remove job has been dispatched and waits in the queue of the
\* target behind the running emit job
C36_Witness ==
    \E t \in SessionTargets :
        /\ cur[t].op = "emit"
        /\ curpc[t] = "timer"
        /\ targetQ[t] /= <<>>
        /\ Head(targetQ[t]).op = "remove"
        /\ Head(targetQ[t]).dev = cur[t].dev

-----------------------------------------------------------------------------
(* The jobs a callback waits for against any event store: mknod, emit and  *)
(* remove jobs of one device are dispatched to one target while Add and    *)
(* Remove events for the device's syspath reach the store at any time.     *)

\* the jobs UI_DEV_CREATE, UI_DEV_DESTROY and release dispatch
\* (vuinput_ioctl.rs:183-213, 230-243, vuinput_release.rs:35-48)
SessionJobs ==
    {MknodDeviceJob(RpA1, JobDev), EmitUdevEventJob(RpA1, JobDev),
     RemoveDeviceJob(RpA1, JobDev), RemoveFromContainerJob(RpA1, JobDev)}

DispatchSessionJob ==
    /\ daemon = "running"
    /\ Len(dispatched) <= MaxJobs
    /\ \E job \in SessionJobs : DispatchNew(job)
    /\ UNCHANGED <<engineRest, cvars, events, daemon, placement, VUINPUT_STATE,
                   handles, bridge, uinput, input_no, kq, udevvars, storevars,
                   now, locals, contvars, reply>>

NextL ==
    \/ DispatchSessionJob
    \/ EngineStep
    \/ JobStep
    \/ ChildExit
    \/ JobStoreEvent
    \/ JobHostUdevData

SpecL == Init /\ [][NextL]_vars

\* The dispatcher thread is scheduled, timers expire and every child
\* process exits.
FairSpecL ==
    /\ SpecL
    /\ WF_vars(EngineStep)
    /\ WF_vars(JobStep)
    /\ WF_vars(ChildExit)

\* the jobs whose Finished state a callback waits for before it replies
Awaited(id) ==
    /\ id \in DOMAIN sync_state
    /\ dispatched[id].op \in {"mknod", "remove", "removefc"}

-----------------------------------------------------------------------------
(* Device nodes left in the container *)

\* the callback that waited for remove job j has replied, and no request
\* has been taken since
RepliedAfter(j) ==
    /\ bridge.pc = "idle"
    /\ reply.op \in {"destroy", "release"}
    /\ reply.job = j

\* C38: with placement in-container, once the UI_DEV_DESTROY or the release
\* of a session has replied, the device node the mknod job created for the
\* session is no longer in the container.
C38_NodeRemovedAfterReply ==
    placement = "InContainer" =>
        \A j \in 1..Len(dispatched) :
            RepliedAfter(j) => dispatched[j].dev.devnode \notin nodes["container"]

-----------------------------------------------------------------------------
(* The sync_state of a job between the thread of the callback, which calls *)
(* the awaiter, and the dispatcher thread, which runs the job's future and *)
(* its set_state calls, in every interleaving of their steps.              *)

\* the set_state calls a future makes from its start to its end:
\* mknod_device (mknod_device_job.rs:127), remove_device and
\* remove_from_container (remove_device_job.rs:100-183) and emit_udev_event
\* with its early return (emit_udev_event_job.rs:107-189)
SetStatePrograms == {<<Finished>>, <<Started, Finished>>, <<Started>>}

States == {Initialized, Started, Finished}

wRest == <<dvars, daemon, placement, VUINPUT_STATE, handles, bridge, uinput,
           input_no, kq, udevvars, storevars, now, sync_state, locals, contvars,
           reply, policy, DEDUP_LAST_ERROR, request, hostops, store_log,
           udev_run, ns_gone, rp_run>>

\* Job::new and get_awaiter_for_state: the job is dispatched and the
\* callback goes on to call the awaiter
JobCreated ==
    /\ sync_run.spc = "none"
    /\ \E program \in SetStatePrograms, wanted \in States :
        sync_run' = SyncState(Initialized, "free", program, "run", wanted,
                              "call", FALSE)
    /\ UNCHANGED wRest

\* a notify_all that wakes nobody
notify_all_Lost(wpc) == wpc

\* cvar.notify_all() (emit_udev_event_job.rs:67): where the awaiter is then
notify_all(wpc) == IF wpc = "parked" THEN "relock" ELSE wpc

\* set_state: lock.lock().unwrap() (emit_udev_event_job.rs:64)
SetStateLock ==
    /\ sync_run.spc = "run"
    /\ sync_run.program /= <<>>
    /\ sync_run.lock = "free"
    /\ sync_run' = [sync_run EXCEPT !.lock = "job", !.spc = "locked"]
    /\ UNCHANGED wRest

\* set_state: *current_state = *new_state; cvar.notify_all()
\* (emit_udev_event_job.rs:65-67)
SetStateStore ==
    /\ sync_run.spc = "locked"
    /\ sync_run' = [sync_run EXCEPT !.state = Head(sync_run.program),
                                    !.wpc = notify_all(sync_run.wpc),
                                    !.spc = "stored"]
    /\ UNCHANGED wRest

\* set_state returns: the guard is dropped
SetStateUnlock ==
    /\ sync_run.spc = "stored"
    /\ sync_run' = [sync_run EXCEPT !.lock = "free", !.spc = "run",
                                    !.program = Tail(sync_run.program)]
    /\ UNCHANGED wRest

\* the awaiter: lock.lock().unwrap() (emit_udev_event_job.rs:75), also when
\* cvar.wait takes the mutex again after a wake-up
AwaiterLock ==
    /\ sync_run.wpc \in {"call", "relock"}
    /\ sync_run.lock = "free"
    /\ sync_run' = [sync_run EXCEPT
            !.lock = "awaiter", !.wpc = "test",
            !.late = IF sync_run.wpc = "call"
                     THEN sync_run.state >= sync_run.wanted ELSE @]
    /\ UNCHANGED wRest

\* the awaiter: while *current_state < *state { cvar.wait(..) }
\* (emit_udev_event_job.rs:76-78); wait gives up the mutex and parks the
\* thread in one step, the end of the closure drops the guard
AwaiterTest ==
    /\ sync_run.wpc = "test"
    /\ sync_run' = [sync_run EXCEPT
            !.lock = "free",
            !.wpc = IF sync_run.state < sync_run.wanted THEN "parked"
                    ELSE "returned"]
    /\ UNCHANGED wRest

\* Condvar::wait may return without a notification
SpuriousWake ==
    /\ sync_run.wpc = "parked"
    /\ sync_run' = [sync_run EXCEPT !.wpc = "relock"]
    /\ UNCHANGED wRest

InitW ==
    /\ InitD
    /\ InitIdle

NextW ==
    \/ JobCreated
    \/ SetStateLock
    \/ SetStateStore
    \/ SetStateUnlock
    \/ AwaiterLock
    \/ AwaiterTest
    \/ SpuriousWake

SpecW == InitW /\ [][NextW]_vars

\* Both threads are scheduled; no wake-up without notification is assumed.
FairSpecW ==
    /\ SpecW
    /\ WF_vars(SetStateLock)
    /\ WF_vars(SetStateStore)
    /\ WF_vars(SetStateUnlock)
    /\ WF_vars(AwaiterLock)
    /\ WF_vars(AwaiterTest)

Reached == sync_run.spc /= "none" /\ sync_run.state >= sync_run.wanted

\* C39: the awaiter returns only when the job's state is at least the state
\* asked for, it does return once the state is (also when the state was
\* reached before the awaiter took the mutex), in every interleaving of the
\* two threads, and the state of a job never moves backwards.
C39_AwaiterReturnsIffStateReached ==
    /\ [](sync_run.wpc = "returned" => Reached)
    /\ Reached ~> (sync_run.wpc = "returned")
    /\ [][sync_run'.state >= sync_run.state]_vars

\* the job had reached Finished before the awaiter for Finished took the
\* mutex, and the awaiter has returned
C39_Witness ==
    /\ sync_run.wpc = "returned"
    /\ sync_run.wanted = Finished
    /\ sync_run.late

-----------------------------------------------------------------------------
(* The order of the two children of the emit job *)

\* the child of emit job j that writes the udev data file is still running
WriterRuns(j) ==
    \E c \in children : c.job = j /\ c.action = "WriteUdevRuntimeData"

=============================================================================
